---- MODULE Spec2Model ----
(***************************************************************************)
(* Model of the StreakArena rock/paper/scissors match lifecycle:           *)
(*   - the game_sessions / rankings / games tables (the store),            *)
(*   - POST /api/match          (src/src/app/api/match/route.ts),          *)
(*   - POST /api/game/choose    (src/src/app/api/game/choose/route.ts),    *)
(*   - POST /api/game/session/abandon                                      *)
(*                     (src/src/app/api/game/session/abandon/route.ts),    *)
(*   - determineWinner          (src/unnamed/part_007).                    *)
(*   - the relay room GameServer (src/unnamed/part_001).                   *)
(* Every store round trip of a handler (one awaited supabase call) is one  *)
(* atomic step; handlers of different requests interleave between steps.   *)
(* The arrival of a request is one step with its first store call, and a   *)
(* relay post is one step with the response that follows it.               *)
(* One game row is modelled (all requests name the same gameSlug), every   *)
(* player of Players has a players row, and the relay host is configured.  *)
(* The relay room is one GameServer instance; each of its callbacks        *)
(* (onRequest, onConnect, onMessage, onClose) is one atomic step.          *)
(*   - the client component RPSGame (src/src/components/RPSGame.tsx): one  *)
(*     step is one callback (event handler, timer, continuation of an      *)
(*     await) with the render and the effects that follow it.              *)
(***************************************************************************)
EXTENDS Integers, Sequences, FiniteSets, Bags, TLC

(* ---------------------------------------------------------------------- *)
(* Bounds                                                                  *)
(* ---------------------------------------------------------------------- *)
\* number of game_sessions rows
MaxSessions == 3
\* number of requests issued after the initial state
MaxRequests == 3
\* number of requests that are in progress at the same time
MaxInFlight == 2
\* number of connections a relay room sees
MaxConns == 3
\* number of events (connect, frame, close, notify) a relay room handles
MaxEvents == 6
\* number of sessions the match service hands to the client
MaxMatches == 1

Players == {"a", "b", "c"}
NoPlayer == "null"

VALID_CHOICES == {"rock", "paper", "scissors"}

GAME_STATUS == {"waiting", "playing", "finished", "cancelled"}

\* round_result: null
NullResult == [winner |-> "null", player1_choice |-> "null", player2_choice |-> "null"]

\* round_choices: {}
EmptyChoices == [k \in {} |-> "null"]

VARIABLES
  sessions,      \* game_sessions table: sequence of rows, id = index (created_at order)
  updatedOrder,  \* session ids ordered by updated_at, oldest first
  rankings,      \* rankings table: player -> streak_count (0 = no row)
  champion,      \* games.current_champion: [player, streak] (player = NoPlayer when null)
  requests,      \* bag of requests in progress (handler position and locals)
  issued,        \* number of requests issued after the initial state
  held,          \* player -> session id of the last /api/match response (0 = none)
  seeded,        \* TRUE when the run starts from InitPaired, FALSE from InitEmpty
  pushed,        \* per session: number of messages of each type posted to the relay room
  audit,         \* per session: what the handlers did to the row (see NewAudit)
  reply,         \* the last HTTP response sent: status code and session of the body
  ended,         \* relay room: GameServer.ended
  connections,   \* relay room: per connection, its phase and its state.playerId
  joined,        \* relay room: per connection, the playerIds of the join frames it sent
  delivered,     \* relay room: per connection, the messages sent to it
  response,      \* relay room: the status of the last onRequest response (0 = none)
  secret,        \* relay room: env.PARTYKIT_SECRET ("" = not set)
  events,        \* relay room: number of events handled
  state,         \* client: GameState of the RPSGame component
  session,       \* client: the stored GameSession (NoSession = null)
  myChoice,      \* client: myChoice and myChoiceRef.current ("null" = none)
  opponentLeft,  \* client: the opponentLeft overlay flag
  matchingRef,   \* client: matchingRef.current
  joinMatch,     \* client: the live matching effect: "none", or where its joinMatch() is
  pollPhase,     \* client: the live polling effect: "off", "timer", "fetch" or "abandon"
  pollCount,     \* client: pollCount of the live polling effect
  socket,        \* client: socketRef.current: "none", or its readyState
  connectTimeout,\* client: the connect timeout of the live socket effect is armed
  stuckTimer,    \* client: the global stuck timer: "off", or the armed setTimeout ("t0", "t1": a timer set while "t0" is armed is "t1")
  choiceTimer,   \* client: the opponent-choice timer is armed
  leftTimer,     \* client: the opponent-left display timer is armed
  awaited,       \* client: requests awaited by a callback that does not check `cancelled`
  srv,           \* client's view of the store: status of each session it was handed
  report         \* client: how the last step brought 'playing, no result yet' for the stored session: "push", "poll", "dropped" (a push that reached no listener); "pushEnd", "droppedEnd": the same for a session_end; "pushLeft", "droppedLeft": for a player_left naming the opponent; "recovered" when the step rendered result without a round_result; else "none"

room == <<ended, connections, joined, delivered, response, secret, events>>

client == <<state, session, myChoice, opponentLeft, matchingRef, joinMatch, pollPhase,
            pollCount, socket, connectTimeout, stuckTimer, choiceTimer, leftTimer,
            awaited, srv, report>>

vars == <<sessions, updatedOrder, rankings, champion, requests, issued, held, seeded,
          pushed, audit, reply, room, client>>

(* ---------------------------------------------------------------------- *)
(* Pure helpers                                                            *)
(* ---------------------------------------------------------------------- *)
SessionIds == 1..Len(sessions)

Min(S) == CHOOSE x \in S : \A y \in S : x <= y

determineWinner_swapped(c1, c2) ==
  IF c1 = c2 THEN "draw"
  ELSE IF \/ (c1 = "rock" /\ c2 = "scissors")
          \/ (c1 = "scissors" /\ c2 = "paper")
          \/ (c1 = "rock" /\ c2 = "paper")
       THEN "player1"
       ELSE "player2"

determineWinner(c1, c2) ==
  IF c1 = c2 THEN "draw"
  ELSE IF \/ (c1 = "rock" /\ c2 = "scissors")
          \/ (c1 = "scissors" /\ c2 = "paper")
          \/ (c1 = "paper" /\ c2 = "rock")
       THEN "player1"
       ELSE "player2"

\* value of existingChoices[key] (undefined -> "null")
ChoiceOf(choices, key) == IF key \in DOMAIN choices THEN choices[key] ELSE "null"

\* { ...existingChoices, [choiceKey]: choice }
WithChoice(choices, key, c) ==
  [k \in (DOMAIN choices) \cup {key} |-> IF k = key THEN c ELSE choices[k]]

\* the set updated_at trigger: the row becomes the most recently updated one
RECURSIVE Without(_, _)
Without(seq, x) ==
  IF seq = <<>> THEN <<>>
  ELSE IF Head(seq) = x THEN Without(Tail(seq), x)
       ELSE <<Head(seq)>> \o Without(Tail(seq), x)

Touch(order, s) == Append(Without(order, s), s)

RECURSIVE TouchAll(_, _)
TouchAll(order, S) ==
  IF S = {} THEN order
  ELSE TouchAll(Touch(order, Min(S)), S \ {Min(S)})

\* last element of the updated_at order that satisfies the filter (0 = no row)
RECURSIVE LatestIn(_, _)
LatestIn(order, S) ==
  IF order = <<>> THEN 0
  ELSE IF order[Len(order)] \in S THEN order[Len(order)]
       ELSE LatestIn(SubSeq(order, 1, Len(order) - 1), S)

IsParticipant(row, p) == row.player1_id = p \/ row.player2_id = p

NewRow(p, streak) ==
  [player1_id |-> p, player2_id |-> NoPlayer, winner_id |-> NoPlayer,
   current_streak |-> streak, status |-> "waiting",
   round_choices |-> EmptyChoices, round_result |-> NullResult]

NullRow == NewRow(NoPlayer, 0)

\* bookkeeping of a row: claims = conditional claims that matched the row,
\* lost = conditional claims that matched no row, resolved = executions of the
\* resolution write, accepted = per slot, the choices answered with 200
NewAudit ==
  [claims |-> 0, lost |-> 0, resolved |-> 0,
   accepted |-> [player1 |-> <<>>, player2 |-> <<>>]]

\* games.current_champion: null
NoTop == [player |-> NoPlayer, streak |-> 0]

NewRequest(kind, p, sid, c, pc) ==
  [kind |-> kind, player |-> p, sid |-> sid, choice |-> c, pc |-> pc,
   found |-> 0, newSid |-> 0, snap |-> NullRow, streak |-> 0, rank |-> 0,
   top |-> NoTop]

\* no response has been sent yet
NoReply == [kind |-> "null", player |-> NoPlayer, code |-> 0, sid |-> 0, session |-> NullRow]

InFlight == BagToSet(requests)

\* a request that has just arrived: it is about to make its first store call
\* and is not yet in the bag
Arriving(r) == r.pc \in {"m_cancel", "c_read", "a_read"}

CanIssue ==
  /\ issued < MaxRequests
  /\ BagCardinality(requests) < MaxInFlight

Issued(r) == IF Arriving(r) THEN issued + 1 ELSE issued

\* request r continues as r2
Replace(r, r2) == (requests (-) SetToBag({r})) (+) SetToBag({r2})

Continue(r, r2) ==
  /\ requests' = Replace(r, r2)
  /\ issued' = Issued(r)
  /\ UNCHANGED <<held, seeded, reply, room, client>>

Goto(r, pc) == Continue(r, [r EXCEPT !.pc = pc])

\* the handler returns status `code`; the body carries the session `row` with
\* id `sid` (sid = 0 and row = NullRow: the body has no session)
Return(r, code, sid, row) ==
  /\ requests' = requests (-) SetToBag({r})
  /\ held' = IF r.kind = "match" /\ code = 200
             THEN [held EXCEPT ![r.player] = sid] ELSE held
  /\ reply' = [kind |-> r.kind, player |-> r.player, code |-> code, sid |-> sid,
               session |-> row]
  /\ issued' = Issued(r)
  /\ UNCHANGED <<seeded, room, client>>

ConnIds == 1..MaxConns

\* a connection that has not been opened; connection.state is undefined
NoConn == [phase |-> "none", playerId |-> "undefined"]

\* a relay room after construction, nothing connected
RoomNew ==
  /\ ended = FALSE
  /\ connections = [c \in ConnIds |-> NoConn]
  /\ joined = [c \in ConnIds |-> {}]
  /\ delivered = [c \in ConnIds |-> <<>>]
  /\ response = 0
  /\ events = 0

\* the ids of the sessions handed to the client
MatchIds == 1..MaxMatches

\* session: null
NoSession == [id |-> 0, status |-> "null", round_result |-> "null"]

\* a request the component awaits: op names the awaiting callback
Op(op, sid) == [op |-> op, sid |-> sid]

\* fetch('/api/player') of the mount effect
PlayerCheck == Op("playerCheck", 0)

\* the component after mount: nickname screen, the player check in flight
ClientNew ==
  /\ state = "nickname"
  /\ session = NoSession
  /\ myChoice = "null"
  /\ opponentLeft = FALSE
  /\ matchingRef = FALSE
  /\ joinMatch = "none"
  /\ pollPhase = "off"
  /\ pollCount = 0
  /\ socket = "none"
  /\ connectTimeout = FALSE
  /\ stuckTimer = "off"
  /\ choiceTimer = FALSE
  /\ leftTimer = FALSE
  /\ awaited = {PlayerCheck}
  /\ srv = [i \in MatchIds |-> "none"]
  /\ report = "none"

\* the empty tables
StoreEmpty ==
  /\ sessions = <<>>
  /\ updatedOrder = <<>>
  /\ rankings = [p \in Players |-> 0]
  /\ champion = NoTop
  /\ requests = EmptyBag
  /\ issued = 0
  /\ held = [p \in Players |-> 0]
  /\ seeded = FALSE
  /\ pushed = <<>>
  /\ audit = <<>>
  /\ reply = NoReply

\* the empty store
InitEmpty ==
  /\ StoreEmpty
  /\ RoomNew
  /\ ClientNew
  /\ secret = ""

\* the store after "a" requested a match on the empty store (row 1 inserted,
\* waiting) and "b" then requested one (row 1 claimed, session_update pushed)
InitPaired ==
  /\ sessions = <<[NewRow("a", 0) EXCEPT !.player2_id = "b", !.status = "playing"]>>
  /\ updatedOrder = <<1>>
  /\ rankings = [p \in Players |-> 0]
  /\ champion = NoTop
  /\ requests = EmptyBag
  /\ issued = 0
  /\ held = [p \in Players |-> IF p \in {"a", "b"} THEN 1 ELSE 0]
  /\ seeded = TRUE
  /\ pushed = <<[session_update |-> 1, session_end |-> 0]>>
  /\ audit = <<[NewAudit EXCEPT !.claims = 1]>>
  /\ reply = [kind |-> "match", player |-> "b", code |-> 200, sid |-> 1,
              session |-> sessions[1]]
  /\ RoomNew
  /\ ClientNew
  /\ secret = ""

\* a finished row that slot 1 ("a") won against "b" with rock over scissors
WonRow(streak) ==
  [player1_id |-> "a", player2_id |-> "b", winner_id |-> "a",
   current_streak |-> streak, status |-> "finished",
   round_choices |-> [k \in {"player1", "player2"} |->
                        IF k = "player1" THEN "rock" ELSE "scissors"],
   round_result |-> [winner |-> "player1", player1_choice |-> "rock",
                     player2_choice |-> "scissors"]]

\* the store after the run of InitPaired continued with: "b" chose scissors, "a"
\* chose rock (row 1 resolved by "a": finished, streak 1, ranking and champion
\* written), "a" requested a match (row 2 inserted with the streak of row 1) and
\* "b" requested one (row 2 claimed)
InitStreak ==
  /\ sessions =
       <<WonRow(1),
         [NewRow("a", 1) EXCEPT !.player2_id = "b", !.status = "playing"]>>
  /\ updatedOrder = <<1, 2>>
  /\ rankings = [p \in Players |-> IF p = "a" THEN 1 ELSE 0]
  /\ champion = [player |-> "a", streak |-> 1]
  /\ requests = EmptyBag
  /\ issued = 0
  /\ held = [p \in Players |-> IF p \in {"a", "b"} THEN 2 ELSE 0]
  /\ seeded = TRUE
  /\ pushed = <<[session_update |-> 2, session_end |-> 1],
                [session_update |-> 1, session_end |-> 0]>>
  /\ audit = <<[claims |-> 1, lost |-> 0, resolved |-> 1,
                accepted |-> [player1 |-> <<"rock">>, player2 |-> <<"scissors">>]],
               [NewAudit EXCEPT !.claims = 1]>>
  /\ reply = [kind |-> "match", player |-> "b", code |-> 200, sid |-> 2,
              session |-> sessions[2]]
  /\ RoomNew
  /\ ClientNew
  /\ secret = ""

\* the store after the run of InitStreak continued with: "b" chose scissors on
\* row 2; "a" sent rock twice and both requests read the row before either
\* wrote; both resolved row 2 (streak 2); the second read the ranking (1) and
\* is about to write 2; the first completed (ranking 2, champion, session_end);
\* "a" requested a match (row 3 inserted with streak 2) and "c" claimed row 3
InitRank ==
  /\ sessions = <<WonRow(1), WonRow(2),
                  [NewRow("a", 2) EXCEPT !.player2_id = "c", !.status = "playing"]>>
  /\ updatedOrder = <<1, 2, 3>>
  /\ rankings = [p \in Players |-> IF p = "a" THEN 2 ELSE 0]
  /\ champion = [player |-> "a", streak |-> 2]
  /\ requests = SetToBag({[NewRequest("choose", "a", 2, "rock", "c_rankwrite")
                             EXCEPT !.snap = WonRow(2), !.streak = 2, !.rank = 1]})
  /\ issued = 0
  /\ held = [p \in Players |-> IF p = "b" THEN 2 ELSE 3]
  /\ seeded = TRUE
  /\ pushed = <<[session_update |-> 2, session_end |-> 1],
                [session_update |-> 2, session_end |-> 1],
                [session_update |-> 1, session_end |-> 0]>>
  /\ audit = <<[claims |-> 1, lost |-> 0, resolved |-> 1,
                accepted |-> [player1 |-> <<"rock">>, player2 |-> <<"scissors">>]],
               [claims |-> 1, lost |-> 0, resolved |-> 2,
                accepted |-> [player1 |-> <<"rock">>, player2 |-> <<"scissors">>]],
               [NewAudit EXCEPT !.claims = 1]>>
  /\ reply = [kind |-> "match", player |-> "c", code |-> 200, sid |-> 3,
              session |-> sessions[3]]
  /\ RoomNew
  /\ ClientNew
  /\ secret = ""

(* ---------------------------------------------------------------------- *)
(* Store primitives                                                        *)
(* ---------------------------------------------------------------------- *)
FindWaiting_own(p, excl) ==
  LET cand == {s \in SessionIds : /\ sessions[s].status = "waiting"
                                  /\ sessions[s].player2_id = NoPlayer
                                  /\ s # excl}
  IN IF cand = {} THEN 0 ELSE Min(cand)

\* .eq('status','waiting').neq('player1_id', p).is('player2_id', null)
\*   [.neq('id', excl)].order('created_at', asc).limit(1).single()
FindWaiting(p, excl) ==
  LET cand == {s \in SessionIds : /\ sessions[s].status = "waiting"
                                  /\ sessions[s].player1_id # p
                                  /\ sessions[s].player2_id = NoPlayer
                                  /\ s # excl}
  IN IF cand = {} THEN 0 ELSE Min(cand)

\* .eq('id', s).eq('status','waiting'): does the conditional update match a row
ClaimGuard_unguarded(s) == TRUE

ClaimGuard(s) == sessions[s].status = "waiting"

\* update({player2_id, status:'playing', round_choices:{}, round_result:null})
Claimed(row, p) ==
  [row EXCEPT !.player2_id = p, !.status = "playing",
              !.round_choices = EmptyChoices, !.round_result = NullResult]

\* .eq('winner_id', p).eq('status','finished').order('updated_at', desc).limit(1)
LastWinStreak(p) ==
  LET s == LatestIn(updatedOrder,
                    {x \in SessionIds : /\ sessions[x].winner_id = p
                                        /\ sessions[x].status = "finished"})
  IN IF s = 0 THEN 0 ELSE sessions[s].current_streak

\* postToPartyKit(sessionId, {type, session})
Push(s, type) ==
  pushed' = [pushed EXCEPT ![s] = [@ EXCEPT ![type] = @ + 1]]

(* ---------------------------------------------------------------------- *)
(* POST /api/match                                                         *)
(* ---------------------------------------------------------------------- *)
\* match requests in progress that may still insert a row
RowsToCome ==
  LET pending == {r \in InFlight : r.kind = "match" /\ r.newSid = 0 /\ r.pc # "m_notify"}
  IN BagCardinality([r \in pending |-> CopiesIn(r, requests)])

\* 3. cancel every waiting/playing session of the requester
MatchCancelOwn(r) ==
  /\ r.pc = "m_cancel"
  /\ LET p == r.player
         own == {s \in SessionIds : /\ sessions[s].status \in {"waiting", "playing"}
                                    /\ IsParticipant(sessions[s], p)}
     IN /\ sessions' = [s \in SessionIds |->
                          IF s \in own THEN [sessions[s] EXCEPT !.status = "cancelled"]
                          ELSE sessions[s]]
        /\ updatedOrder' = TouchAll(updatedOrder, own)
  /\ Goto(r, "m_find")
  /\ UNCHANGED <<rankings, champion, pushed, audit>>

\* a match request of player p arrives and makes its first store call
StartMatch(p) ==
  /\ CanIssue
  /\ Len(sessions) + RowsToCome < MaxSessions
  /\ MatchCancelOwn(NewRequest("match", p, 0, "null", "m_cancel"))

\* 4. look for another player's waiting session
MatchFindWaiting(r) ==
  /\ r.pc = "m_find"
  /\ LET f == FindWaiting(r.player, 0)
     IN Continue(r, IF f # 0 THEN [r EXCEPT !.found = f, !.pc = "m_claim"]
          ELSE [r EXCEPT !.pc = "m_lastwin"])
  /\ UNCHANGED <<sessions, updatedOrder, rankings, champion, pushed, audit>>

\* join by conditional update; on a lost race fall through to createWaitingSession
MatchClaim(r) ==
  /\ r.pc = "m_claim"
  /\ LET s == r.found
         p == r.player
     IN IF ClaimGuard(s)
        THEN /\ sessions' = [sessions EXCEPT ![s] = Claimed(@, p)]
             /\ updatedOrder' = Touch(updatedOrder, s)
             /\ audit' = [audit EXCEPT ![s].claims = @ + 1]
             /\ Continue(r, [r EXCEPT !.snap = Claimed(sessions[s], p), !.pc = "m_notify"])
        ELSE /\ Continue(r, [r EXCEPT !.found = 0, !.pc = "m_lastwin"])
             /\ audit' = [audit EXCEPT ![s].lost = @ + 1]
             /\ UNCHANGED <<sessions, updatedOrder>>
  /\ UNCHANGED <<rankings, champion, pushed>>

\* createWaitingSession: streak of the requester's most recent win
MatchLastWin(r) ==
  /\ r.pc = "m_lastwin"
  /\ Continue(r, [r EXCEPT !.streak = LastWinStreak(r.player), !.pc = "m_insert"])
  /\ UNCHANGED <<sessions, updatedOrder, rankings, champion, pushed, audit>>

\* createWaitingSession: insert the waiting row
MatchInsert(r) ==
  /\ r.pc = "m_insert"
  /\ sessions' = Append(sessions, NewRow(r.player, r.streak))
  /\ updatedOrder' = Append(updatedOrder, Len(sessions) + 1)
  /\ pushed' = Append(pushed, [session_update |-> 0, session_end |-> 0])
  /\ audit' = Append(audit, NewAudit)
  /\ Continue(r, [r EXCEPT !.newSid = Len(sessions) + 1, !.streak = 0,
                 !.snap = NewRow(r.player, r.streak), !.pc = "m_recheck"])
  /\ UNCHANGED <<rankings, champion>>

\* createWaitingSession: re-query for another player's waiting session
MatchRecheck(r) ==
  /\ r.pc = "m_recheck"
  /\ LET f == FindWaiting(r.player, r.newSid)
     IN IF f # 0
        THEN Continue(r, [r EXCEPT !.found = f, !.pc = "m_claim2"])
        ELSE Return(r, 200, r.newSid, r.snap)
  /\ UNCHANGED <<sessions, updatedOrder, rankings, champion, pushed, audit>>

\* createWaitingSession: conditional claim of the other waiting session
MatchClaim2(r) ==
  /\ r.pc = "m_claim2"
  /\ LET s == r.found
         p == r.player
     IN IF ClaimGuard(s)
        THEN /\ sessions' = [sessions EXCEPT ![s] = Claimed(@, p)]
             /\ updatedOrder' = Touch(updatedOrder, s)
             /\ audit' = [audit EXCEPT ![s].claims = @ + 1]
             /\ Continue(r, [r EXCEPT !.snap = Claimed(sessions[s], p), !.pc = "m_cancelnew"])
        ELSE /\ Return(r, 200, r.newSid, r.snap)
             /\ audit' = [audit EXCEPT ![s].lost = @ + 1]
             /\ UNCHANGED <<sessions, updatedOrder>>
  /\ UNCHANGED <<rankings, champion, pushed>>

\* createWaitingSession: update({status:'cancelled'}).eq('id', newSession.id)
MatchCancelNew(r) ==
  /\ r.pc = "m_cancelnew"
  /\ sessions' = [sessions EXCEPT ![r.newSid].status = "cancelled"]
  /\ updatedOrder' = Touch(updatedOrder, r.newSid)
  /\ Goto(r, "m_notify")
  /\ UNCHANGED <<rankings, champion, pushed, audit>>

MatchNotify_silent(r) ==
  /\ r.pc = "m_notify"
  /\ Return(r, 200, r.found, r.snap)
  /\ UNCHANGED <<sessions, updatedOrder, rankings, champion, pushed, audit>>

\* broadcastSessionUpdate(joined) and the response
MatchNotify(r) ==
  /\ r.pc = "m_notify"
  /\ Push(r.found, "session_update")
  /\ Return(r, 200, r.found, r.snap)
  /\ UNCHANGED <<sessions, updatedOrder, rankings, champion, audit>>


(* ---------------------------------------------------------------------- *)
(* POST /api/game/choose                                                   *)
(* ---------------------------------------------------------------------- *)
ChoiceKey(row, p) == IF row.player1_id = p THEN "player1" ELSE "player2"

\* updatedChoices of request r, from the row it read
UpdatedChoices(r) ==
  WithChoice(r.snap.round_choices, ChoiceKey(r.snap, r.player), r.choice)

\* the choice of request r is answered with 200
Accept(r) ==
  audit' = [audit EXCEPT ![r.sid].accepted[ChoiceKey(r.snap, r.player)] =
                            Append(@, r.choice)]

BothChosen(choices) ==
  ChoiceOf(choices, "player1") # "null" /\ ChoiceOf(choices, "player2") # "null"

ChooseRead_nodup(r) ==
  /\ r.pc = "c_read"
  /\ LET row == sessions[r.sid]
         p == r.player
     IN IF row.status # "playing" THEN Return(r, 404, 0, NullRow)
        ELSE IF ~IsParticipant(row, p) THEN Return(r, 403, 0, NullRow)
        ELSE Continue(r, [r EXCEPT !.snap = row,
                         !.pc = IF BothChosen(WithChoice(row.round_choices,
                                                ChoiceKey(row, p), r.choice))
                                THEN "c_resolve" ELSE "c_partial"])
  /\ UNCHANGED <<sessions, updatedOrder, rankings, champion, pushed, audit>>

\* 2.-5. read the playing session, find the caller's slot, detect a duplicate
ChooseRead(r) ==
  /\ r.pc = "c_read"
  /\ LET row == sessions[r.sid]
         p == r.player
     IN IF row.status # "playing" THEN Return(r, 404, 0, NullRow)
        ELSE IF ~IsParticipant(row, p) THEN Return(r, 403, 0, NullRow)
        ELSE IF ChoiceOf(row.round_choices, ChoiceKey(row, p)) # "null"
             THEN Goto(r, "c_dup")
        ELSE Continue(r, [r EXCEPT !.snap = row,
                         !.pc = IF BothChosen(WithChoice(row.round_choices,
                                                ChoiceKey(row, p), r.choice))
                                THEN "c_resolve" ELSE "c_partial"])
  /\ UNCHANGED <<sessions, updatedOrder, rankings, champion, pushed, audit>>

\* a choose request {sessionId: s, choice: c} of player p arrives and makes its
\* first store call
StartChoose(p, s, c) ==
  /\ CanIssue
  /\ ChooseRead(NewRequest("choose", p, s, c, "c_read"))

\* duplicate submission: re-read the row and answer 400 with it
ChooseDuplicate(r) ==
  /\ r.pc = "c_dup"
  /\ Return(r, 400, r.sid, sessions[r.sid])
  /\ UNCHANGED <<sessions, updatedOrder, rankings, champion, pushed, audit>>

Resolved_keepstreak(row, choices) ==
  LET result == determineWinner(choices["player1"], choices["player2"])
      winnerId == IF result = "player1" THEN row.player1_id
                  ELSE IF result = "player2" THEN row.player2_id
                  ELSE NoPlayer
      newStreak == IF result = "player1" THEN row.current_streak + 1
                   ELSE row.current_streak
  IN [round_choices |-> choices,
      round_result |-> [winner |-> result,
                        player1_choice |-> choices["player1"],
                        player2_choice |-> choices["player2"]],
      current_streak |-> newStreak,
      status |-> "finished",
      winner_id |-> winnerId]

\* the row written by the resolution: update(updateData).eq('id', gameSessionId)
Resolved(row, choices) ==
  LET result == determineWinner(choices["player1"], choices["player2"])
      winnerId == IF result = "player1" THEN row.player1_id
                  ELSE IF result = "player2" THEN row.player2_id
                  ELSE NoPlayer
      newStreak == IF result = "player1" THEN row.current_streak + 1 ELSE 0
  IN [round_choices |-> choices,
      round_result |-> [winner |-> result,
                        player1_choice |-> choices["player1"],
                        player2_choice |-> choices["player2"]],
      current_streak |-> newStreak,
      status |-> "finished",
      winner_id |-> winnerId]

ChooseResolve_anyrank(r) ==
  /\ r.pc = "c_resolve"
  /\ LET s == r.sid
         p == r.player
         u == Resolved(r.snap, UpdatedChoices(r))
         updated == [sessions[s] EXCEPT
                       !.round_choices = u.round_choices,
                       !.round_result = u.round_result,
                       !.current_streak = u.current_streak,
                       !.status = u.status,
                       !.winner_id = IF u.winner_id # NoPlayer THEN u.winner_id ELSE @]
     IN /\ sessions' = [sessions EXCEPT ![s] = updated]
        /\ updatedOrder' = Touch(updatedOrder, s)
        /\ audit' = [audit EXCEPT ![s].resolved = @ + 1]
        /\ Continue(r, [r EXCEPT !.snap = updated,
                       !.streak = u.current_streak,
                       !.pc = IF u.winner_id # NoPlayer
                              THEN (IF r.snap.player2_id = p
                                    THEN "c_mylast" ELSE "c_rankread")
                              ELSE "c_end"])
  /\ UNCHANGED <<rankings, champion, pushed>>

\* resolve the round: unconditional update of the row by id
ChooseResolve(r) ==
  /\ r.pc = "c_resolve"
  /\ LET s == r.sid
         p == r.player
         u == Resolved(r.snap, UpdatedChoices(r))
         updated == [sessions[s] EXCEPT
                       !.round_choices = u.round_choices,
                       !.round_result = u.round_result,
                       !.current_streak = u.current_streak,
                       !.status = u.status,
                       !.winner_id = IF u.winner_id # NoPlayer THEN u.winner_id ELSE @]
     IN /\ sessions' = [sessions EXCEPT ![s] = updated]
        /\ updatedOrder' = Touch(updatedOrder, s)
        /\ audit' = [audit EXCEPT ![s].resolved = @ + 1]
        /\ Continue(r, [r EXCEPT !.snap = updated,
                       !.streak = u.current_streak,
                       !.pc = IF u.winner_id # NoPlayer /\ u.winner_id = p
                              THEN (IF r.snap.player2_id = p
                                    THEN "c_mylast" ELSE "c_rankread")
                              ELSE "c_end"])
  /\ UNCHANGED <<rankings, champion, pushed>>

\* slot2 winner: streak for the ranking from the caller's latest finished session
ChooseMyLast(r) ==
  /\ r.pc = "c_mylast"
  /\ LET p == r.player
         myLast == LatestIn(updatedOrder,
                            {x \in SessionIds : /\ sessions[x].status = "finished"
                                                /\ IsParticipant(sessions[x], p)})
         prev == IF myLast # 0 /\ sessions[myLast].winner_id = p
                 THEN sessions[myLast].current_streak ELSE 0
     IN Continue(r, [r EXCEPT !.streak = prev + 1, !.pc = "c_rankread"])
  /\ UNCHANGED <<sessions, updatedOrder, rankings, champion, pushed, audit>>

\* read the winner's ranking row
ChooseRankRead(r) ==
  /\ r.pc = "c_rankread"
  /\ LET existing == rankings[r.player]
     IN Continue(r, [r EXCEPT !.rank = existing,
                    !.pc = IF existing # 0 /\ ~(existing < r.streak)
                           THEN "c_topread" ELSE "c_rankwrite"])
  /\ UNCHANGED <<sessions, updatedOrder, rankings, champion, pushed, audit>>

\* update the row by id when the streak is better, insert when there was none
\* (a second insert for the same (game, player) violates the unique index and
\*  its error is not looked at)
ChooseRankWrite(r) ==
  /\ r.pc = "c_rankwrite"
  /\ LET p == r.player
     IN rankings' = IF r.rank # 0
                    THEN [rankings EXCEPT ![p] = r.streak]
                    ELSE IF rankings[p] = 0
                         THEN [rankings EXCEPT ![p] = r.streak]
                         ELSE rankings
  /\ Goto(r, "c_topread")
  /\ UNCHANGED <<sessions, updatedOrder, champion, pushed, audit>>

\* read the top ranking row of the game (ties: any of the top rows)
ChooseTopRead(r) ==
  /\ r.pc = "c_topread"
  /\ LET ranked == {p \in Players : rankings[p] # 0}
     IN IF ranked = {}
        THEN Goto(r, "c_end")
        ELSE \E t \in ranked :
               /\ \A q \in ranked : rankings[q] <= rankings[t]
               /\ Continue(r, [r EXCEPT !.top = [player |-> t, streak |-> rankings[t]],
                              !.pc = "c_champion"])
  /\ UNCHANGED <<sessions, updatedOrder, rankings, champion, pushed, audit>>

\* games.update({current_champion: topRank})
ChooseChampion(r) ==
  /\ r.pc = "c_champion"
  /\ champion' = r.top
  /\ Goto(r, "c_end")
  /\ UNCHANGED <<sessions, updatedOrder, rankings, pushed, audit>>

\* broadcastSessionEnd(updated) and the response
ChooseEnd(r) ==
  /\ r.pc = "c_end"
  /\ Push(r.sid, "session_end")
  /\ Return(r, 200, r.sid, r.snap)
  /\ Accept(r)
  /\ UNCHANGED <<sessions, updatedOrder, rankings, champion>>

\* only one choice so far: update({round_choices: updatedChoices}).eq('id', ...)
ChoosePartial(r) ==
  /\ r.pc = "c_partial"
  /\ LET s == r.sid
         updated == [sessions[s] EXCEPT !.round_choices = UpdatedChoices(r)]
     IN /\ sessions' = [sessions EXCEPT ![s] = updated]
        /\ updatedOrder' = Touch(updatedOrder, s)
        /\ Continue(r, [r EXCEPT !.snap = updated, !.pc = "c_update"])
  /\ UNCHANGED <<rankings, champion, pushed, audit>>

\* broadcastSessionUpdate(updated) and the response
ChooseUpdate(r) ==
  /\ r.pc = "c_update"
  /\ Push(r.sid, "session_update")
  /\ Return(r, 200, r.sid, r.snap)
  /\ Accept(r)
  /\ UNCHANGED <<sessions, updatedOrder, rankings, champion>>

(* ---------------------------------------------------------------------- *)
(* POST /api/game/session/abandon                                          *)
(* ---------------------------------------------------------------------- *)
AbandonRead_open(r) ==
  /\ r.pc = "a_read"
  /\ LET row == sessions[r.sid]
     IN IF row.status \in {"finished", "cancelled"} THEN Return(r, 200, 0, NullRow)
        ELSE Goto(r, "a_write")
  /\ UNCHANGED <<sessions, updatedOrder, rankings, champion, pushed, audit>>

\* read the row; refuse non-participants; finished/cancelled rows are left alone
AbandonRead(r) ==
  /\ r.pc = "a_read"
  /\ LET row == sessions[r.sid]
     IN IF ~IsParticipant(row, r.player) THEN Return(r, 403, 0, NullRow)
        ELSE IF row.status \in {"finished", "cancelled"} THEN Return(r, 200, 0, NullRow)
        ELSE Goto(r, "a_write")
  /\ UNCHANGED <<sessions, updatedOrder, rankings, champion, pushed, audit>>

\* an abandon request {sessionId: s} of player p arrives and makes its first
\* store call
StartAbandon(p, s) ==
  /\ CanIssue
  /\ AbandonRead(NewRequest("abandon", p, s, "null", "a_read"))

\* update({status:'cancelled'}).eq('id', gameSessionId)
AbandonWrite(r) ==
  /\ r.pc = "a_write"
  /\ LET s == r.sid
         updated == [sessions[s] EXCEPT !.status = "cancelled"]
     IN /\ sessions' = [sessions EXCEPT ![s] = updated]
        /\ updatedOrder' = Touch(updatedOrder, s)
        /\ Continue(r, [r EXCEPT !.snap = updated, !.pc = "a_notify"])
  /\ UNCHANGED <<rankings, champion, pushed, audit>>

\* broadcastSessionUpdate(updated) and the response
AbandonNotify(r) ==
  /\ r.pc = "a_notify"
  /\ Push(r.sid, "session_update")
  /\ Return(r, 200, 0, NullRow)
  /\ UNCHANGED <<sessions, updatedOrder, rankings, champion, audit>>

(* ---------------------------------------------------------------------- *)
(* Relay room: GameServer                                                  *)
(* ---------------------------------------------------------------------- *)
store == <<sessions, updatedOrder, rankings, champion, requests, issued, held, seeded,
           pushed, audit, reply>>

SESSION_UPDATE_TYPE == "session_update"

SESSION_END_TYPE == "session_end"

PLAYER_LEFT_TYPE == "player_left"

\* values of env.PARTYKIT_SECRET
Secrets == {"", "s3cret"}

\* the token of the Authorization header ("none" = no header)
Auths == {"none", "s3cret", "wrong"}

\* what req.json() yields: valid = it resolves to an object; session "null" =
\* the object has no session (or session: null)
Bodies ==
  {[valid |-> FALSE, type |-> "null", session |-> "null"]} \cup
  [valid : {TRUE}, type : {SESSION_UPDATE_TYPE, SESSION_END_TYPE, "other"},
   session : {"null", "row"}]

Requests == [method : {"POST", "GET"}, auth : Auths, body : Bodies]

\* a playerId that is not a string
NotAString == [string |-> FALSE, value |-> "7"]

\* the strings a join frame may carry as playerId
JoinIds == {"a", "b", ""}

\* client frames: text that is not JSON, join frames, other JSON
Frames ==
  {[valid |-> FALSE, type |-> "null", playerId |-> NotAString]} \cup
  {[valid |-> TRUE, type |-> "join", playerId |-> [string |-> TRUE, value |-> p]] :
     p \in JoinIds} \cup
  {[valid |-> TRUE, type |-> "join", playerId |-> NotAString],
   [valid |-> TRUE, type |-> "other", playerId |-> [string |-> TRUE, value |-> "a"]]}

Msg(type, payload, playerId) == [type |-> type, session |-> payload, playerId |-> playerId]

verifySecret_open(auth) == TRUE

verifySecret(auth) == IF secret = "" THEN TRUE ELSE auth = secret

\* room.broadcast(msg, without): to every open connection not in `without`
broadcast(conns, msg, without) ==
  [c \in ConnIds |-> IF conns[c].phase = "open" /\ c \notin without
                     THEN Append(delivered[c], msg) ELSE delivered[c]]

\* the room handles one more event
Handled == events < MaxEvents /\ events' = events + 1

Rejected(code) ==
  /\ response' = code
  /\ UNCHANGED <<ended, delivered>>

onRequest(req) ==
  /\ Handled
  /\ IF req.method # "POST" THEN Rejected(405)
     ELSE IF ~verifySecret(req.auth) THEN Rejected(401)
     ELSE IF ~req.body.valid THEN Rejected(400)
     ELSE IF req.body.type = SESSION_UPDATE_TYPE /\ req.body.session # "null"
     THEN /\ delivered' = broadcast(connections,
                                    Msg(req.body.type, req.body.session, "null"), {})
          /\ response' = 200
          /\ UNCHANGED ended
     ELSE IF req.body.type = SESSION_END_TYPE
     THEN /\ ended' = TRUE
          /\ delivered' = broadcast(connections,
                                    Msg(SESSION_END_TYPE, req.body.session, "null"), {})
          /\ response' = 200
     ELSE Rejected(400)
  /\ UNCHANGED <<connections, joined, secret, store, client>>

\* a connection opens (ids are given in the order of connecting); a retired
\* room closes it at once (phase "refused")
onConnect(c) ==
  /\ Handled
  /\ connections[c].phase = "none"
  /\ \A d \in ConnIds : d < c => connections[d].phase # "none"
  /\ connections' = [connections EXCEPT ![c].phase = IF ended THEN "refused" ELSE "open"]
  /\ UNCHANGED <<ended, joined, delivered, response, secret, store, client>>

onMessage(c, frame) ==
  /\ Handled
  /\ connections[c].phase = "open"
  /\ IF frame.valid /\ frame.type = "join" /\ frame.playerId.string
     THEN /\ connections' = [connections EXCEPT ![c].playerId = frame.playerId.value]
          /\ joined' = [joined EXCEPT ![c] = @ \cup {frame.playerId.value}]
     ELSE UNCHANGED <<connections, joined>>
  /\ UNCHANGED <<ended, delivered, response, secret, store, client>>

onClose_unguarded(c) ==
  /\ Handled
  /\ connections[c].phase = "open"
  /\ connections' = [connections EXCEPT ![c].phase = "closed"]
  /\ LET playerId == connections[c].playerId
     IN IF playerId \notin {"undefined", ""}
        THEN delivered' = broadcast(connections', Msg(PLAYER_LEFT_TYPE, "null", playerId), {c})
        ELSE UNCHANGED delivered
  /\ UNCHANGED <<ended, joined, response, secret, store, client>>

\* an open connection closes
onClose(c) ==
  /\ Handled
  /\ connections[c].phase = "open"
  /\ connections' = [connections EXCEPT ![c].phase = "closed"]
  /\ LET playerId == connections[c].playerId
     IN IF ended THEN UNCHANGED delivered
        ELSE IF playerId \notin {"undefined", ""}
        THEN delivered' = broadcast(connections', Msg(PLAYER_LEFT_TYPE, "null", playerId), {c})
        ELSE UNCHANGED delivered
  /\ UNCHANGED <<ended, joined, response, secret, store, client>>

\* one relay room, with or without a configured secret
InitRelay ==
  /\ StoreEmpty
  /\ RoomNew
  /\ ClientNew
  /\ secret \in Secrets

NextRelay ==
  \/ \E req \in Requests : onRequest(req)
  \/ \E c \in ConnIds : onConnect(c)
  \/ \E c \in ConnIds : \E frame \in Frames : onMessage(c, frame)
  \/ \E c \in ConnIds : onClose(c)

SpecRelay == InitRelay /\ [][NextRelay]_vars

(* ---------------------------------------------------------------------- *)
(* Client: the RPSGame component                                           *)
(* ---------------------------------------------------------------------- *)
(* One step is one callback of the component (an event handler, a timer    *)
(* callback, the continuation after an await) together with the render it  *)
(* causes and the effects of that render: React flushes the effects of a   *)
(* render before it handles the next update.  The relay host is            *)
(* configured, so a socket exists whenever the socket effect is live.      *)
(* The store is seen through srv: the status of each session the match     *)
(* service handed to this client.                                          *)
MAX_WAITING_POLLS == 10

\* the choices the user picks from
Choice == {"rock", "paper", "scissors"}

\* "none": not handed out yet; "chosen": playing, with this client's choice in
\* round_choices; "player1" and "draw": finished with that round_result.winner;
\* "cancelledW": cancelled while waiting; "cancelledP": cancelled while
\* playing; "gone": a session the client no longer stores (its status is not
\* followed any further)
SrvStatus == {"none", "waiting", "playing", "chosen", "player1", "draw", "cancelledW",
              "cancelledP", "gone"}

\* the store as seen once the component stores session s
Forget(sv, s) ==
  [i \in MatchIds |-> IF sv[i] # "none" /\ s.id # i THEN "gone" ELSE sv[i]]

\* the GameSession of session i when the store has it in status st
Row(i, st) ==
  [id |-> i,
   status |-> CASE st = "waiting" -> "waiting"
                [] st \in {"playing", "chosen"} -> "playing"
                [] st \in {"player1", "draw"} -> "finished"
                [] OTHER -> "cancelled",
   round_result |-> IF st \in {"player1", "draw"} THEN st ELSE "null"]

\* the component's state and refs as one record; depsSet: a dependency of the
\* matching effect other than state (matchAttempt, player) was set by the callback
Cur ==
  [state |-> state, session |-> session, myChoice |-> myChoice,
   opponentLeft |-> opponentLeft, matchingRef |-> matchingRef, joinMatch |-> joinMatch,
   pollPhase |-> pollPhase, pollCount |-> pollCount, socket |-> socket,
   connectTimeout |-> connectTimeout, stuckTimer |-> stuckTimer,
   choiceTimer |-> choiceTimer, leftTimer |-> leftTimer, awaited |-> awaited,
   depsSet |-> FALSE]

wsRoomId(s) == IF s.status \in {"waiting", "playing"} THEN s.id ELSE 0

\* the other participant of the stored session (the opponent of every paired
\* session is "b"; a waiting session has none)
opponentId(s) == IF s = NoSession \/ s.status = "waiting" THEN "null" ELSE "b"

\* the render after a callback that left the component as c, and its effects:
\* every effect whose dependencies changed since prev is cleaned up and run again
Render(prev, c) ==
  LET matchDeps == c.state # prev.state \/ c.depsSet
      runMatch == c.state = "matching" /\ ~c.matchingRef
      pollDeps == c.session.id # prev.session.id \/ c.session.status # prev.session.status
      wsDeps == wsRoomId(c.session) # wsRoomId(prev.session)
      leftDeps == c.opponentLeft # prev.opponentLeft \/ pollDeps
      choiceDeps == \/ c.state # prev.state
                    \/ c.session.id # prev.session.id
                    \/ c.myChoice # prev.myChoice
      stuckDeps == c.state # prev.state
  IN [c EXCEPT
        !.depsSet = FALSE,
        !.joinMatch = IF matchDeps THEN (IF runMatch THEN "pending" ELSE "none") ELSE @,
        !.matchingRef = IF matchDeps /\ runMatch THEN TRUE ELSE @,
        !.pollPhase = IF pollDeps
                      THEN (IF c.session.status = "waiting" THEN "timer" ELSE "off")
                      ELSE @,
        !.pollCount = IF pollDeps THEN 0 ELSE @,
        !.socket = IF wsDeps
                   THEN (IF wsRoomId(c.session) # 0 THEN "connecting" ELSE "none")
                   ELSE @,
        !.connectTimeout = IF wsDeps THEN wsRoomId(c.session) # 0 ELSE @,
        !.leftTimer = IF leftDeps
                      THEN /\ c.opponentLeft
                           /\ c.session # NoSession
                           /\ c.session.status # "finished"
                      ELSE @,
        !.choiceTimer = IF choiceDeps
                        THEN /\ c.state = "waiting"
                             /\ c.session # NoSession
                             /\ c.myChoice # "null"
                        ELSE @,
        !.stuckTimer = IF stuckDeps
                       THEN (IF c.state \notin {"choosing", "waiting"} THEN "off"
                             ELSE IF prev.stuckTimer = "t0" THEN "t1" ELSE "t0")
                       ELSE @]

\* the tail of resetToMatching and of abandonAndRematch
rematch(c) ==
  [c EXCEPT !.session = NoSession, !.myChoice = "null", !.opponentLeft = FALSE,
            !.matchingRef = FALSE, !.state = "matching", !.depsSet = TRUE]

closeSocket(c) == [c EXCEPT !.socket = "none"]

resetToMatching(c) == rematch(closeSocket(c))

\* abandonAndRematch up to its await: without a stored session nothing is awaited
abandonAndRematch(c) ==
  IF c.session = NoSession THEN rematch(closeSocket(c))
  ELSE [closeSocket(c) EXCEPT !.awaited = @ \cup {Op("abandon", c.session.id)}]

\* a render in result without a round_result
NoData(m) == m.state = "result" /\ m.session.round_result = "null"

Settle_shown(prev, c) == Render(prev, c)

\* the result-without-data effect: a render in result without a round_result
\* calls resetToMatching, which renders again
Settle(prev, c) ==
  LET m == Render(prev, c)
  IN IF NoData(m)
     THEN Render(m, resetToMatching(m))
     ELSE m

\* the callback leaves the component as c and the store as sv; how: see report
Commit(c, sv, how) ==
  LET n == Settle(Cur, c)
  IN /\ state' = n.state
     /\ session' = n.session
     /\ myChoice' = n.myChoice
     /\ opponentLeft' = n.opponentLeft
     /\ matchingRef' = n.matchingRef
     /\ joinMatch' = n.joinMatch
     /\ pollPhase' = n.pollPhase
     /\ pollCount' = n.pollCount
     /\ socket' = n.socket
     /\ connectTimeout' = n.connectTimeout
     /\ stuckTimer' = n.stuckTimer
     /\ choiceTimer' = n.choiceTimer
     /\ leftTimer' = n.leftTimer
     /\ awaited' = n.awaited
     /\ srv' = Forget(sv, n.session)
     /\ report' = IF NoData(Render(Cur, c)) THEN "recovered" ELSE how
     /\ UNCHANGED <<store, room>>

\* a callback that leaves the component as c and does not reach the store
Callback(c) == Commit(c, srv, "none")

\* the store cancels session i when it is waiting or playing
Cancelled(sv, i) ==
  [sv EXCEPT ![i] = CASE @ = "waiting" -> "cancelledW"
                      [] @ \in {"playing", "chosen"} -> "cancelledP"
                      [] OTHER -> @]

\* fetch('/api/player') of the mount effect settles; found: the body has a
\* player with a nickname
PlayerCheckDone(found) ==
  /\ PlayerCheck \in awaited
  /\ LET c == [Cur EXCEPT !.awaited = @ \ {PlayerCheck}]
     IN Callback(IF found THEN [c EXCEPT !.state = "matching", !.depsSet = TRUE] ELSE c)

\* the nickname form is submitted and POST /api/player answers with a player
\* (one step: the form stays on the screen until the answer)
handleSetNickname ==
  /\ state = "nickname"
  /\ Callback([Cur EXCEPT !.state = "matching", !.depsSet = TRUE])

\* POST /api/match answers 200 with session i, created (waiting) or claimed
\* (playing); the route has cancelled the requester's older sessions
MatchReply(i, st) ==
  /\ joinMatch = "pending"
  /\ srv[i] = "none"
  /\ \A j \in MatchIds : j < i => srv[j] # "none"
  /\ Commit([Cur EXCEPT !.joinMatch = "idle", !.session = Row(i, st),
                        !.state = IF st = "playing" THEN "choosing" ELSE @],
            [j \in MatchIds |-> IF j = i THEN st ELSE Cancelled(srv, j)[j]], "none")

\* POST /api/match fails (status not ok, or the fetch rejects): the retry
\* timer is armed
MatchFail ==
  /\ joinMatch = "pending"
  /\ Callback([Cur EXCEPT !.joinMatch = "retry"])

\* the retry timer fires
MatchRetry ==
  /\ joinMatch = "retry"
  /\ Callback([Cur EXCEPT !.matchingRef = FALSE, !.depsSet = TRUE])

\* the matching timeout fires (the matching effect is live, so state = matching)
MatchTimeout ==
  /\ joinMatch # "none"
  /\ Callback([Cur EXCEPT !.matchingRef = FALSE, !.depsSet = TRUE])

PollTick_late ==
  /\ pollPhase = "timer"
  /\ IF pollCount > MAX_WAITING_POLLS
     THEN Callback([Cur EXCEPT !.pollCount = @ + 1, !.pollPhase = "abandon",
                               !.awaited = @ \cup {Op("abandon", session.id)}])
     ELSE Callback([Cur EXCEPT !.pollCount = @ + 1, !.pollPhase = "fetch"])

\* the poll timer fires: one more poll, or the abandon after MAX_WAITING_POLLS
PollTick ==
  /\ pollPhase = "timer"
  /\ IF pollCount + 1 > MAX_WAITING_POLLS
     THEN Callback([Cur EXCEPT !.pollCount = @ + 1, !.pollPhase = "abandon",
                               !.awaited = @ \cup {Op("abandon", session.id)}])
     ELSE Callback([Cur EXCEPT !.pollCount = @ + 1, !.pollPhase = "fetch"])

\* the poll of the live polling effect settles; ok: the body has the session
PollReply(ok) ==
  /\ pollPhase = "fetch"
  /\ LET next == Row(session.id, srv[session.id])
     IN IF ok /\ next.status = "playing"
        THEN Commit(IF myChoice = "null"
                    THEN [Cur EXCEPT !.session = next, !.state = "choosing",
                                     !.opponentLeft = FALSE]
                    ELSE [Cur EXCEPT !.session = next], srv, "poll")
        ELSE IF ok /\ next.status \in {"cancelled", "finished"}
        THEN Callback(resetToMatching(Cur))
        ELSE Callback([Cur EXCEPT !.pollPhase = "timer"])

\* the socket opens: onOpen sends the join frame; partySocketReady = (socket = "open")
SocketOpen ==
  /\ socket = "connecting"
  /\ Callback([Cur EXCEPT !.socket = "open"])

\* the connection is lost: onClose; PartySocket connects again
SocketClose ==
  /\ socket = "open"
  /\ Callback([Cur EXCEPT !.socket = "connecting"])

\* the connect timeout fires
ConnectTimeout ==
  /\ connectTimeout
  /\ LET c == [Cur EXCEPT !.connectTimeout = FALSE]
     IN IF socket = "connecting"
        THEN IF state \in {"choosing", "waiting"}
             THEN Callback(abandonAndRematch(closeSocket(c)))
             ELSE Callback(closeSocket(c))
        ELSE Callback(c)

\* the messages the relay room of session i can carry: what the routes post
\* (a playing session_update may arrive after the session has moved on) and
\* the room's own player_left
Messages(i) ==
  (IF srv[i] \in {"playing", "chosen", "player1", "draw", "cancelledP"}
   THEN {[type |-> SESSION_UPDATE_TYPE, session |-> Row(i, "playing"), playerId |-> "null"]}
   ELSE {}) \cup
  (IF srv[i] \in {"cancelledW", "cancelledP"}
   THEN {[type |-> SESSION_UPDATE_TYPE, session |-> Row(i, srv[i]), playerId |-> "null"]}
   ELSE {}) \cup
  (IF srv[i] \in {"player1", "draw"}
   THEN {[type |-> SESSION_END_TYPE, session |-> Row(i, srv[i]), playerId |-> "null"]}
   ELSE {}) \cup
  (IF srv[i] # "none"
   THEN {[type |-> PLAYER_LEFT_TYPE, session |-> NoSession, playerId |-> q] :
           q \in {"b", "c"}}
   ELSE {})

onSocketMessage_unprotected(c, msg) ==
  LET updated == msg.session
  IN IF msg.type = SESSION_END_TYPE
     THEN IF updated.round_result # "null"
          THEN [closeSocket(c) EXCEPT !.session = updated, !.state = "result"]
          ELSE resetToMatching([c EXCEPT !.session = updated])
     ELSE IF msg.type = SESSION_UPDATE_TYPE
     THEN IF updated.status = "cancelled"
          THEN resetToMatching([c EXCEPT !.session = updated])
          ELSE IF updated.status = "finished"
          THEN IF updated.round_result # "null"
               THEN [closeSocket(c) EXCEPT !.session = updated, !.state = "result"]
               ELSE resetToMatching([c EXCEPT !.session = updated])
          ELSE IF updated.status = "playing" /\ updated.round_result = "null"
          THEN [c EXCEPT !.session = updated, !.state = "choosing",
                        !.opponentLeft = FALSE]
          ELSE [c EXCEPT !.session = updated]
     ELSE IF msg.playerId = opponentId(c.session)
     THEN [c EXCEPT !.opponentLeft = TRUE]
     ELSE c

\* the message listener of the socket effect
onSocketMessage(c, msg) ==
  LET updated == msg.session
  IN IF msg.type = SESSION_END_TYPE
     THEN IF updated.round_result # "null"
          THEN [closeSocket(c) EXCEPT !.session = updated, !.state = "result"]
          ELSE resetToMatching([c EXCEPT !.session = updated])
     ELSE IF msg.type = SESSION_UPDATE_TYPE
     THEN IF updated.status = "cancelled"
          THEN resetToMatching([c EXCEPT !.session = updated])
          ELSE IF updated.status = "finished"
          THEN IF updated.round_result # "null"
               THEN [closeSocket(c) EXCEPT !.session = updated, !.state = "result"]
               ELSE resetToMatching([c EXCEPT !.session = updated])
          ELSE IF updated.status = "playing" /\ updated.round_result = "null"
                  /\ c.myChoice = "null"
          THEN [c EXCEPT !.session = updated, !.state = "choosing",
                        !.opponentLeft = FALSE]
          ELSE [c EXCEPT !.session = updated]
     ELSE IF msg.playerId = opponentId(c.session)
     THEN [c EXCEPT !.opponentLeft = TRUE]
     ELSE c

Listening_always(i) == session.id = i

\* the socket of the component is open in room i
Listening(i) == socket = "open" /\ wsRoomId(session) = i

\* msg says 'playing, no result yet'
NonTerminal(msg) ==
  /\ msg.type = SESSION_UPDATE_TYPE
  /\ msg.session.status = "playing"
  /\ msg.session.round_result = "null"

\* what report says of msg: heard = a listener handled it
Reported(msg, heard) ==
  IF NonTerminal(msg) THEN (IF heard THEN "push" ELSE "dropped")
  ELSE IF msg.type = SESSION_END_TYPE THEN (IF heard THEN "pushEnd" ELSE "droppedEnd")
  ELSE IF msg.type = PLAYER_LEFT_TYPE /\ msg.playerId = opponentId(session)
  THEN (IF heard THEN "pushLeft" ELSE "droppedLeft")
  ELSE "none"

RelayMessage_reapplied(i, msg) ==
  /\ msg \in Messages(i)
  /\ IF Listening(i)
     THEN Commit(onSocketMessage(Cur, msg), srv, Reported(msg, TRUE))
     ELSE /\ Reported(msg, FALSE) # "none"
          /\ session.id = i
          /\ Commit(IF msg.type = SESSION_END_TYPE THEN resetToMatching(Cur) ELSE Cur,
                    srv, Reported(msg, FALSE))

\* the relay room of session i broadcasts msg
RelayMessage(i, msg) ==
  /\ msg \in Messages(i)
  /\ IF Listening(i)
     THEN Commit(onSocketMessage(Cur, msg), srv, Reported(msg, TRUE))
     ELSE /\ Reported(msg, FALSE) # "none"
          /\ session.id = i
          /\ report' = Reported(msg, FALSE)
          /\ UNCHANGED <<srv, store, room, state, session, myChoice, opponentLeft,
                         matchingRef, joinMatch, pollPhase, pollCount, socket,
                         connectTimeout, stuckTimer, choiceTimer, leftTimer, awaited>>

\* the opponent-left display timer fires
LeftTimeout ==
  /\ leftTimer
  /\ Callback(abandonAndRematch([Cur EXCEPT !.leftTimer = FALSE]))

\* the draw timer fires (it is armed exactly while the result shown is a draw)
DrawTimeout ==
  /\ state = "result"
  /\ session.round_result = "draw"
  /\ Callback(resetToMatching(Cur))

\* the opponent-choice timer fires
ChoiceTimeout ==
  /\ choiceTimer
  /\ Callback(abandonAndRematch([Cur EXCEPT !.choiceTimer = FALSE]))

\* the global stuck timer t fires
StuckTimeout(t) ==
  /\ stuckTimer = t
  /\ Callback(abandonAndRematch([Cur EXCEPT !.stuckTimer = "off"]))

\* abandonSession(sid) settles (ok: the route handled it) and the callback that
\* awaits it goes on: abandonAndRematch with its tail, poll with
\* resetToMatching.  The two leave the component in the same state: the tail
\* closes no socket, but clearing the session ends the socket effect, which does.
AbandonDone(op, ok) ==
  /\ op \in awaited
  /\ op.op = "abandon"
  /\ Commit(rematch([Cur EXCEPT !.awaited = @ \ {op}]),
            IF ok THEN Cancelled(srv, op.sid) ELSE srv, "none")

\* a choice button is clicked: the buttons are rendered in choosing/waiting
\* with the socket ready and no overlay, and are disabled once myChoice is set
handleChoice(choice) ==
  /\ state \in {"choosing", "waiting"}
  /\ ~opponentLeft
  /\ socket = "open"
  /\ myChoice = "null"
  /\ session # NoSession
  /\ Callback([Cur EXCEPT !.myChoice = choice, !.state = "waiting",
                          !.awaited = @ \cup {Op("choose", session.id)}])

\* what a choose request for session i can come back with: the fetch rejects
\* ("reject"), 404, another error status, 200 or 400 'Already chose' with the
\* row as the route saw it (for a session the client no longer stores: any of
\* the rows the route can answer with)
Outcomes(i) ==
  {[kind |-> "reject", session |-> NoSession], [kind |-> "500", session |-> NoSession]} \cup
  (IF srv[i] \notin {"playing", "chosen"}
   THEN {[kind |-> "404", session |-> NoSession]} ELSE {}) \cup
  (IF srv[i] \in {"playing", "chosen", "player1", "draw", "cancelledP", "gone"}
   THEN [kind : {"200", "400"}, session : {Row(i, "playing")}] ELSE {}) \cup
  [kind : {"200", "400"},
   session : {Row(i, w) : w \in {x \in {"player1", "draw"} : srv[i] \in {x, "gone"}}}]

\* the fetch of handleChoice settles
ChooseReply(op, out) ==
  /\ op \in awaited
  /\ op.op = "choose"
  /\ out \in Outcomes(op.sid)
  /\ LET c == [Cur EXCEPT !.awaited = @ \ {op}]
         s == out.session
     IN IF out.kind = "reject"
        THEN Callback([c EXCEPT !.state = "choosing", !.myChoice = "null"])
        ELSE IF out.kind \in {"404", "500"}
        THEN Callback(resetToMatching(c))
        ELSE IF out.kind = "400"
        THEN IF s.status = "finished" /\ s.round_result # "null"
             THEN Callback([closeSocket(c) EXCEPT !.session = s, !.state = "result"])
             ELSE Callback([c EXCEPT !.session = s])
        ELSE IF s.status = "finished" /\ s.round_result # "null"
        THEN Callback([closeSocket(c) EXCEPT !.session = s, !.state = "result"])
        ELSE Callback(c)

\* the play-again button (rendered with a result that is not a draw)
handlePlayAgain ==
  /\ state = "result"
  /\ session.round_result \notin {"null", "draw"}
  /\ Callback(resetToMatching(Cur))

\* another player claims the waiting session i
SrvClaim(i) ==
  /\ srv[i] = "waiting"
  /\ srv' = [srv EXCEPT ![i] = "playing"]
  /\ report' = "none"
  /\ UNCHANGED <<store, room, state, session, myChoice, opponentLeft,
                 matchingRef, joinMatch, pollPhase, pollCount, socket,
                 connectTimeout, stuckTimer, choiceTimer, leftTimer, awaited>>

\* the opponent abandons session i, or asks for a new match
SrvCancel(i) ==
  /\ srv[i] \in {"waiting", "playing", "chosen"}
  /\ srv' = Cancelled(srv, i)
  /\ report' = "none"
  /\ UNCHANGED <<store, room, state, session, myChoice, opponentLeft,
                 matchingRef, joinMatch, pollPhase, pollCount, socket,
                 connectTimeout, stuckTimer, choiceTimer, leftTimer, awaited>>

\* the choice of a choose request of this client reaches the store first
SrvChoose(i) ==
  /\ srv[i] = "playing"
  /\ Op("choose", i) \in awaited
  /\ srv' = [srv EXCEPT ![i] = "chosen"]
  /\ report' = "none"
  /\ UNCHANGED <<store, room, state, session, myChoice, opponentLeft,
                 matchingRef, joinMatch, pollPhase, pollCount, socket,
                 connectTimeout, stuckTimer, choiceTimer, leftTimer, awaited>>

\* the second choice reaches the store: session i is resolved with winner w
\* (the opponent's choice after this client's, or this client's from a
\* request under way after the opponent's)
SrvResolve(i, w) ==
  /\ \/ srv[i] = "chosen"
     \/ srv[i] = "playing" /\ Op("choose", i) \in awaited
  /\ srv' = [srv EXCEPT ![i] = w]
  /\ report' = "none"
  /\ UNCHANGED <<store, room, state, session, myChoice, opponentLeft,
                 matchingRef, joinMatch, pollPhase, pollCount, socket,
                 connectTimeout, stuckTimer, choiceTimer, leftTimer, awaited>>

NextClient ==
  \/ \E found \in BOOLEAN : PlayerCheckDone(found)
  \/ handleSetNickname
  \/ \E i \in MatchIds : \E st \in {"waiting", "playing"} : MatchReply(i, st)
  \/ MatchFail
  \/ MatchRetry
  \/ MatchTimeout
  \/ PollTick
  \/ \E ok \in BOOLEAN : PollReply(ok)
  \/ SocketOpen
  \/ SocketClose
  \/ ConnectTimeout
  \/ \E i \in MatchIds : \E msg \in Messages(i) : RelayMessage(i, msg)
  \/ LeftTimeout
  \/ DrawTimeout
  \/ ChoiceTimeout
  \/ \E t \in {"t0", "t1"} : StuckTimeout(t)
  \/ \E op \in awaited : \E ok \in BOOLEAN : AbandonDone(op, ok)
  \/ \E choice \in Choice : handleChoice(choice)
  \/ \E op \in {o \in awaited : o.op = "choose"} :
       \E out \in Outcomes(op.sid) : ChooseReply(op, out)
  \/ handlePlayAgain
  \/ \E i \in MatchIds : SrvClaim(i)
  \/ \E i \in MatchIds : SrvCancel(i)
  \/ \E i \in MatchIds : SrvChoose(i)
  \/ \E i \in MatchIds : \E w \in {"player1", "draw"} : SrvResolve(i, w)

SpecClient == InitEmpty /\ [][NextClient]_vars

\* every armed timer fires unless it is cleared first, and every request the
\* component waits for settles (the fetch resolves or rejects)
FairClient ==
  /\ WF_vars(StuckTimeout("t0"))
  /\ WF_vars(StuckTimeout("t1"))
  /\ WF_vars(ChoiceTimeout)
  /\ WF_vars(LeftTimeout)
  /\ WF_vars(DrawTimeout)
  /\ WF_vars(ConnectTimeout)
  /\ WF_vars(MatchTimeout)
  /\ WF_vars(MatchRetry)
  /\ WF_vars(PollTick)
  /\ WF_vars(\E ok \in BOOLEAN : PollReply(ok))
  /\ WF_vars(MatchFail \/ \E i \in MatchIds : \E st \in {"waiting", "playing"} : MatchReply(i, st))
  /\ WF_vars(\E found \in BOOLEAN : PlayerCheckDone(found))
  /\ WF_vars(\E op \in awaited : \E ok \in BOOLEAN : AbandonDone(op, ok))
  /\ WF_vars(\E op \in {o \in awaited : o.op = "choose"} :
               \E out \in Outcomes(op.sid) : ChooseReply(op, out))

SpecClientFair == SpecClient /\ FairClient

(* ---------------------------------------------------------------------- *)
(* Specification                                                           *)
(* ---------------------------------------------------------------------- *)
Next ==
  \/ \E p \in Players : StartMatch(p)
  \/ \E p \in Players : \E s \in SessionIds : \E c \in VALID_CHOICES : StartChoose(p, s, c)
  \/ \E p \in Players : \E s \in SessionIds : StartAbandon(p, s)
  \/ \E r \in InFlight : MatchFindWaiting(r)
  \/ \E r \in InFlight : MatchClaim(r)
  \/ \E r \in InFlight : MatchLastWin(r)
  \/ \E r \in InFlight : MatchInsert(r)
  \/ \E r \in InFlight : MatchRecheck(r)
  \/ \E r \in InFlight : MatchClaim2(r)
  \/ \E r \in InFlight : MatchCancelNew(r)
  \/ \E r \in InFlight : MatchNotify(r)
  \/ \E r \in InFlight : ChooseDuplicate(r)
  \/ \E r \in InFlight : ChooseResolve(r)
  \/ \E r \in InFlight : ChooseMyLast(r)
  \/ \E r \in InFlight : ChooseRankRead(r)
  \/ \E r \in InFlight : ChooseRankWrite(r)
  \/ \E r \in InFlight : ChooseTopRead(r)
  \/ \E r \in InFlight : ChooseChampion(r)
  \/ \E r \in InFlight : ChooseEnd(r)
  \/ \E r \in InFlight : ChoosePartial(r)
  \/ \E r \in InFlight : ChooseUpdate(r)
  \/ \E r \in InFlight : AbandonWrite(r)
  \/ \E r \in InFlight : AbandonNotify(r)

\* the matchmaking protocol alone: /api/match and /api/game/session/abandon
NextMatch ==
  \/ \E p \in Players : StartMatch(p)
  \/ \E p \in Players : \E s \in SessionIds : StartAbandon(p, s)
  \/ \E r \in InFlight : MatchFindWaiting(r)
  \/ \E r \in InFlight : MatchClaim(r)
  \/ \E r \in InFlight : MatchLastWin(r)
  \/ \E r \in InFlight : MatchInsert(r)
  \/ \E r \in InFlight : MatchRecheck(r)
  \/ \E r \in InFlight : MatchClaim2(r)
  \/ \E r \in InFlight : MatchCancelNew(r)
  \/ \E r \in InFlight : MatchNotify(r)
  \/ \E r \in InFlight : AbandonWrite(r)
  \/ \E r \in InFlight : AbandonNotify(r)

\* the handlers on a store that has no waiting row and room for one more row:
\* /api/match finds nothing to claim, so its claim steps are left out
NextStreak ==
  \/ \E p \in Players : StartMatch(p)
  \/ \E p \in Players : \E s \in SessionIds : \E c \in VALID_CHOICES : StartChoose(p, s, c)
  \/ \E p \in Players : \E s \in SessionIds : StartAbandon(p, s)
  \/ \E r \in InFlight : MatchFindWaiting(r)
  \/ \E r \in InFlight : MatchLastWin(r)
  \/ \E r \in InFlight : MatchInsert(r)
  \/ \E r \in InFlight : MatchRecheck(r)
  \/ \E r \in InFlight : ChooseDuplicate(r)
  \/ \E r \in InFlight : ChooseResolve(r)
  \/ \E r \in InFlight : ChooseMyLast(r)
  \/ \E r \in InFlight : ChooseRankRead(r)
  \/ \E r \in InFlight : ChooseRankWrite(r)
  \/ \E r \in InFlight : ChooseTopRead(r)
  \/ \E r \in InFlight : ChooseChampion(r)
  \/ \E r \in InFlight : ChooseEnd(r)
  \/ \E r \in InFlight : ChoosePartial(r)
  \/ \E r \in InFlight : ChooseUpdate(r)
  \/ \E r \in InFlight : AbandonWrite(r)
  \/ \E r \in InFlight : AbandonNotify(r)

\* /api/game/choose and /api/game/session/abandon on a store that is full:
\* /api/match is left out
NextChoose ==
  \/ \E p \in Players : \E s \in SessionIds : \E c \in VALID_CHOICES : StartChoose(p, s, c)
  \/ \E p \in Players : \E s \in SessionIds : StartAbandon(p, s)
  \/ \E r \in InFlight : ChooseDuplicate(r)
  \/ \E r \in InFlight : ChooseResolve(r)
  \/ \E r \in InFlight : ChooseMyLast(r)
  \/ \E r \in InFlight : ChooseRankRead(r)
  \/ \E r \in InFlight : ChooseRankWrite(r)
  \/ \E r \in InFlight : ChooseTopRead(r)
  \/ \E r \in InFlight : ChooseChampion(r)
  \/ \E r \in InFlight : ChooseEnd(r)
  \/ \E r \in InFlight : ChoosePartial(r)
  \/ \E r \in InFlight : ChooseUpdate(r)
  \/ \E r \in InFlight : AbandonWrite(r)
  \/ \E r \in InFlight : AbandonNotify(r)

\* all three handlers, from the store in which a first pair is playing
Spec == InitPaired /\ [][Next]_vars

\* matchmaking from the empty store
SpecMatch == InitEmpty /\ [][NextMatch]_vars

\* from the store in which "a" plays row 2 with a streak of 1
SpecStreak == InitStreak /\ [][NextStreak]_vars

\* from the store in which "a" plays row 3 with a streak of 2 while a
\* duplicate resolution of row 2 is still in progress
SpecRank == InitRank /\ [][NextChoose]_vars

(* ---------------------------------------------------------------------- *)
(* Properties                                                              *)
(* ---------------------------------------------------------------------- *)
Active(s) == sessions[s].status \in {"waiting", "playing"}

SlotsOf(s) == {sessions[s].player1_id, sessions[s].player2_id}

\* the run consisted of exactly two /api/match requests, issued by the two
\* distinct players p and q on the empty store, and both have been answered
TwoMatched(p, q) ==
  /\ ~seeded
  /\ issued = 2
  /\ requests = EmptyBag
  /\ p # q
  /\ held[p] # 0
  /\ held[q] # 0

\* C1: after two concurrent match requests of two distinct players on the empty
\* queue have completed, exactly one session contains both players, and it is
\* playing (not two sessions with both players, not two separate sessions).
C1_ExactlyOnePairing ==
  \A p \in Players : \A q \in Players :
    TwoMatched(p, q) =>
      LET both == {s \in SessionIds : SlotsOf(s) = {p, q}}
      IN /\ Cardinality(both) = 1
         /\ \A s \in both : sessions[s].status = "playing"

\* C2: after two match requests issued at the same instant on the empty queue
\* have returned, both players hold the same session id and that session is
\* playing in the store.
C2_SameSessionPlaying ==
  \A p \in Players : \A q \in Players :
    TwoMatched(p, q) =>
      /\ held[p] = held[q]
      /\ sessions[held[p]].status = "playing"

\* C3: the resolution step of a session (the write of finished/round_result and
\* the session_end broadcast) executes at most once, whatever duplicate
\* submissions arrive.
C3_ResolvedAtMostOnce ==
  \A s \in SessionIds :
    /\ audit[s].resolved <= 1
    /\ pushed[s]["session_end"] <= 1

\* C4: when each participant of a session submitted exactly one choice that was
\* accepted, and the session was not abandoned, the session is finished, holds
\* both choices and its round_result is computed from exactly those choices.
C4_BothChoicesResolve ==
  \A s \in SessionIds :
    LET acc == audit[s].accepted
    IN (/\ Len(acc["player1"]) = 1
        /\ Len(acc["player2"]) = 1
        /\ sessions[s].status # "cancelled")
       => /\ sessions[s].status = "finished"
          /\ sessions[s].round_choices =
               [k \in {"player1", "player2"} |-> acc[k][1]]
          /\ sessions[s].round_result =
               [winner |-> determineWinner(acc["player1"][1], acc["player2"][1]),
                player1_choice |-> acc["player1"][1],
                player2_choice |-> acc["player2"][1]]

\* C5: once round_result is non-null no step changes it.
C5_ResultImmutable ==
  [][\A s \in SessionIds :
       sessions[s].round_result # NullResult
         => sessions'[s].round_result = sessions[s].round_result]_vars

\* C6: round_choices has at most the entries player1 and player2, and an entry
\* that has been written is never changed or removed.
C6_ChoicesImmutable ==
  /\ [](\A s \in SessionIds :
          DOMAIN sessions[s].round_choices \subseteq {"player1", "player2"})
  /\ [][\A s \in SessionIds : \A k \in DOMAIN sessions[s].round_choices :
          /\ k \in DOMAIN sessions'[s].round_choices
          /\ sessions'[s].round_choices[k] = sessions[s].round_choices[k]]_vars

\* C7: every change of a session's status is waiting->playing,
\* waiting->cancelled, playing->finished or playing->cancelled.
C7_StatusMonotone ==
  [][\A s \in SessionIds :
       sessions'[s].status # sessions[s].status
         => <<sessions[s].status, sessions'[s].status>> \in
              {<<"waiting", "playing">>, <<"waiting", "cancelled">>,
               <<"playing", "finished">>, <<"playing", "cancelled">>}]_vars

\* C8: player2 is written only by a step that moves the row from waiting to
\* playing; a waiting row has no player2; a non-empty player2 never changes;
\* of the claims attempted on one row at most one succeeds.
C8_AtomicClaim ==
  /\ [](\A s \in SessionIds :
          /\ sessions[s].status = "waiting" => sessions[s].player2_id = NoPlayer
          /\ audit[s].claims <= 1)
  /\ [][\A s \in SessionIds :
          /\ sessions[s].player2_id # NoPlayer
               => sessions'[s].player2_id = sessions[s].player2_id
          /\ sessions'[s].player2_id # sessions[s].player2_id
               => /\ sessions[s].status = "waiting"
                  /\ sessions'[s].status = "playing"]_vars

\* C8 witness: a row was claimed once while another claim on it lost the race
C8_Witness ==
  \E s \in SessionIds :
    /\ audit[s].claims = 1
    /\ audit[s].lost >= 1
    /\ sessions[s].player2_id # NoPlayer

\* C9: a player with no request in progress is in a slot of at most one
\* waiting/playing session.
C9_OneActiveSession ==
  \A p \in Players :
    (\A r \in InFlight : r.player # p)
      => Cardinality({s \in SessionIds : Active(s) /\ IsParticipant(sessions[s], p)}) <= 1

\* the expected outcomes of src/src/lib/rps.test.ts
RpsTable(c1, c2) ==
  CASE <<c1, c2>> \in {<<"rock", "rock">>, <<"paper", "paper">>,
                       <<"scissors", "scissors">>} -> "draw"
    [] <<c1, c2>> \in {<<"rock", "scissors">>, <<"scissors", "paper">>,
                       <<"paper", "rock">>} -> "player1"
    [] <<c1, c2>> \in {<<"scissors", "rock">>, <<"paper", "scissors">>,
                       <<"rock", "paper">>} -> "player2"

\* C10: determineWinner is defined on all 9 pairs of choices and equals the
\* reference table; every outcome a resolution stored is the table's outcome.
C10_WinnerTable ==
  /\ \A c1 \in VALID_CHOICES : \A c2 \in VALID_CHOICES :
       determineWinner(c1, c2) = RpsTable(c1, c2)
  /\ \A s \in SessionIds :
       sessions[s].round_result # NullResult
         => sessions[s].round_result.winner =
              RpsTable(sessions[s].round_result.player1_choice,
                       sessions[s].round_result.player2_choice)

\* C10 witness: a round was resolved in favour of slot 2 with paper over rock
C10_Witness ==
  \E s \in SessionIds :
    /\ audit[s].resolved >= 1
    /\ sessions[s].round_result =
         [winner |-> "player2", player1_choice |-> "rock", player2_choice |-> "paper"]

\* C11: the step that writes the second choice of a playing session sets, in
\* that same step, status finished (for a win of either slot and for a draw),
\* round_result to the table outcome of the two written choices, winner_id to
\* the player of the winning slot (it stays unset on a draw), and
\* current_streak to the row's prior streak + 1 when slot 1 wins, to 0 otherwise.
C11_ResolutionWrite ==
  [][\A s \in SessionIds :
       (sessions[s].status = "playing" /\ BothChosen(sessions'[s].round_choices))
         => LET old == sessions[s]
                new == sessions'[s]
                c1 == new.round_choices["player1"]
                c2 == new.round_choices["player2"]
                w == RpsTable(c1, c2)
            IN /\ new.status = "finished"
               /\ new.round_result =
                    [winner |-> w, player1_choice |-> c1, player2_choice |-> c2]
               /\ new.winner_id = (CASE w = "player1" -> old.player1_id
                                     [] w = "player2" -> old.player2_id
                                     [] w = "draw" -> NoPlayer)
               /\ new.current_streak =
                    (IF w = "player1" THEN old.current_streak + 1 ELSE 0)]_vars

\* C11 witness: slot 1 won row 2, whose prior streak was 1: it is finished
\* with streak 2
C11_Witness ==
  /\ Len(sessions) >= 2
  /\ audit[2].resolved >= 1
  /\ sessions[2].status = "finished"
  /\ sessions[2].round_result.winner = "player1"
  /\ sessions[2].winner_id = sessions[2].player1_id
  /\ sessions[2].current_streak = 2

\* C12: for every player the streak of the ranking entry never decreases, in
\* any step of any interleaving of resolutions (0 = the player has no entry).
C12_RankingMonotone ==
  [][\A p \in Players : rankings'[p] >= rankings[p]]_vars

\* C13: once the requests that resolved a session with a non-draw winner have
\* been answered, the winner has a ranking entry and its streak is at least the
\* streak of this win (the row's streak for slot 1, at least 1 for slot 2),
\* whichever participant sent the resolving choice.
C13_WinnerRanked ==
  \A s \in SessionIds :
    LET row == sessions[s]
        w == row.winner_id
    IN (/\ audit[s].resolved >= 1
        /\ row.status = "finished"
        /\ w # NoPlayer
        /\ \A r \in InFlight : ~(r.kind = "choose" /\ r.sid = s))
       => /\ rankings[w] >= 1
          /\ w = row.player1_id => rankings[w] >= row.current_streak

\* x was last updated before y
Before(x, y) ==
  \E i \in 1..Len(updatedOrder) : \E j \in 1..Len(updatedOrder) :
    i < j /\ updatedOrder[i] = x /\ updatedOrder[j] = y

\* the most recently updated finished session that has p in a slot (0 = none)
LastFinished(p) ==
  LatestIn(updatedOrder, {x \in SessionIds : /\ sessions[x].status = "finished"
                                              /\ IsParticipant(sessions[x], p)})

\* C14: a waiting session that p created after p's most recent finished
\* session, when that session was a draw or a loss for p, has current_streak 0,
\* whatever p won before.
C14_StreakVoided ==
  \A w \in SessionIds :
    LET p == sessions[w].player1_id
        m == LastFinished(p)
    IN (/\ sessions[w].status = "waiting"
        /\ m # 0
        /\ sessions[m].winner_id # p
        /\ Before(m, w))
       => sessions[w].current_streak = 0

\* the number of sessions p won in a row, counted back from p's most recently
\* finished session (order = sessions by updated_at, oldest first)
RECURSIVE WinRun(_, _)
WinRun(order, p) ==
  IF order = <<>> THEN 0
  ELSE LET x == order[Len(order)]
           rest == SubSeq(order, 1, Len(order) - 1)
       IN IF sessions[x].status = "finished" /\ IsParticipant(sessions[x], p)
          THEN (IF sessions[x].winner_id = p THEN 1 + WinRun(rest, p) ELSE 0)
          ELSE WinRun(rest, p)

\* C15: a waiting session that p created after all finished sessions of p has
\* current_streak = the number k of sessions p has just won in a row (in either
\* slot), and the streak a resolution uses for p's ranking on the k-th win is k.
C15_StreakCarried ==
  /\ \A w \in SessionIds :
       LET p == sessions[w].player1_id
           m == LastFinished(p)
       IN (sessions[w].status = "waiting" /\ (m = 0 \/ Before(m, w)))
          => sessions[w].current_streak = WinRun(updatedOrder, p)
  /\ \A r \in InFlight :
       r.pc = "c_rankread" => r.streak = WinRun(updatedOrder, r.player)

\* player p has a recorded choice in its slot of session s
HasChosen(p, s) ==
  /\ IsParticipant(sessions[s], p)
  /\ ChoiceOf(sessions[s].round_choices, ChoiceKey(sessions[s], p)) # "null"

\* request r is on the duplicate path of /api/game/choose
OnDuplicatePath(r, p, s) ==
  r.kind = "choose" /\ r.player = p /\ r.sid = s /\ r.pc = "c_dup"

\* C16: a choose request of a participant whose slot holds a choice, arriving
\* when the round of the session has been resolved (the row is finished), is
\* taken to the duplicate path (answered 400 with the current row), is not
\* answered 404, and does not change the row.
C16_LateDuplicate ==
  [][\A p \in Players : \A s \in SessionIds : \A c \in VALID_CHOICES :
       (/\ audit[s].resolved >= 1
        /\ sessions[s].status = "finished"
        /\ HasChosen(p, s)
        /\ StartChoose(p, s, c))
       => /\ \E r \in BagToSet(requests') : OnDuplicatePath(r, p, s)
          /\ reply'.code # 404
          /\ sessions' = sessions]_vars

\* C17: a choose request of a participant whose slot holds a choice, arriving
\* while the session is playing, is taken to the duplicate path without any
\* write or broadcast; the request on the duplicate path is answered 400 with
\* the row as it is stored, and answering it changes neither the row
\* (round_choices, round_result, status, winner, streak) nor the rankings,
\* and posts nothing to the relay.
C17_DuplicateConflict ==
  /\ [][issued' # issued =>
          \A p \in Players : \A s \in SessionIds : \A c \in VALID_CHOICES :
            (/\ sessions[s].status = "playing"
             /\ HasChosen(p, s)
             /\ StartChoose(p, s, c))
            => /\ \E r \in BagToSet(requests') : OnDuplicatePath(r, p, s)
               /\ UNCHANGED <<sessions, updatedOrder, rankings, champion, pushed>>]_vars
  /\ [][\A r \in InFlight :
          (r.kind = "choose" /\ r.pc = "c_dup" /\ requests' = requests (-) SetToBag({r}))
            => /\ reply' = [kind |-> "choose", player |-> r.player, code |-> 400,
                            sid |-> r.sid, session |-> sessions[r.sid]]
               /\ UNCHANGED <<sessions, updatedOrder, rankings, champion, pushed>>]_vars

\* C17 witness: a duplicate choice was answered 400 with the playing row that
\* holds the caller's earlier choice
C17_Witness ==
  /\ reply.kind = "choose"
  /\ reply.code = 400
  /\ reply.session.status = "playing"
  /\ reply.session = sessions[reply.sid]
  /\ HasChosen(reply.player, reply.sid)

\* the positions of the player_left messages among the messages sent to a
\* connection
Lefts(inbox) == {i \in 1..Len(inbox) : inbox[i].type = PLAYER_LEFT_TYPE}

\* C18: once the room has accepted a session_end notify (ended is set), every
\* later step leaves ended set, sends no player_left to any connection (so a
\* closing connection is not announced), and a connection that opens is closed
\* by the room at once.
C18_RetiredRoom ==
  [][ended =>
       /\ ended'
       /\ \A c \in ConnIds :
            Cardinality(Lefts(delivered'[c])) = Cardinality(Lefts(delivered[c]))
       /\ \A c \in ConnIds :
            (connections[c].phase = "none" /\ connections'[c].phase # "none")
              => connections'[c].phase = "refused"]_vars

\* C18 witness: in a retired room a joined connection that had received the
\* session_end closed, another connection that is still open got no
\* player_left, and a later connection was refused
C18_Witness ==
  /\ ended
  /\ \E d \in ConnIds : \E e \in ConnIds : \E f \in ConnIds :
       /\ connections[d].phase = "closed"
       /\ connections[d].playerId \in {"a", "b"}
       /\ delivered[d] # <<>>
       /\ delivered[d][Len(delivered[d])].type = SESSION_END_TYPE
       /\ connections[e].phase = "open"
       /\ delivered[e] # <<>>
       /\ Lefts(delivered[e]) = {}
       /\ connections[f].phase = "refused"

\* C19: when an open connection c closes in a room that has not ended, then
\* for every playerId p that c sent in a join frame, every other open
\* connection is sent exactly one message, the player_left naming p, and c is
\* sent nothing; when c sent no join frame nothing is sent to anyone.
C19_PlayerLeft ==
  [][\A c \in ConnIds :
       (~ended /\ connections[c].phase = "open" /\ connections'[c].phase = "closed")
         => /\ delivered'[c] = delivered[c]
            /\ \A p \in joined[c] : \A d \in ConnIds \ {c} :
                 connections[d].phase = "open"
                   => delivered'[d] = Append(delivered[d], Msg(PLAYER_LEFT_TYPE, "null", p))
            /\ joined[c] = {} => delivered' = delivered]_vars

\* C20: a notify that is not a POST is answered 405; a POST that lacks the
\* configured secret is answered 401; an authorised POST whose body is
\* unparsable, of unknown type, or a session_update without a session is
\* answered 400; in each case nothing is sent to any connection and ended
\* keeps its value.
C20_NotifyRejects ==
  [][\A req \in Requests :
       onRequest(req) =>
         LET authorised == secret = "" \/ req.auth = secret
             malformed ==
               \/ ~req.body.valid
               \/ req.body.type \notin {SESSION_UPDATE_TYPE, SESSION_END_TYPE}
               \/ req.body.type = SESSION_UPDATE_TYPE /\ req.body.session = "null"
             quiet == delivered' = delivered /\ ended' = ended
         IN /\ req.method # "POST" => response' = 405 /\ quiet
            /\ (req.method = "POST" /\ ~authorised) => response' = 401 /\ quiet
            /\ (req.method = "POST" /\ authorised /\ malformed)
                 => response' = 400 /\ quiet]_vars

\* C20 witness: a room with a configured secret and an open connection
\* answered 401; the connection was sent nothing and the room has not ended
C20_Witness ==
  /\ response = 401
  /\ secret # ""
  /\ ~ended
  /\ \E c \in ConnIds : connections[c].phase = "open" /\ delivered[c] = <<>>

\* C29: a match request that answers with a session it claimed (status
\* playing) posts exactly one session_update for that session in the step that
\* answers, and the claim (player2_id = the requester) is in the store before
\* that step; every other step of a match request, the answer with a newly
\* created waiting session included, posts nothing.
C29_ClaimNotifies ==
  [][LET returned == {r \in InFlight : /\ r.kind = "match"
                                       /\ requests' = requests (-) SetToBag({r})}
         \* a step of a match request: one of them left its position, or one arrived
         matchStep ==
           \/ \E r \in InFlight :
                 r.kind = "match" /\ CopiesIn(r, requests') < CopiesIn(r, requests)
           \/ \E r \in BagToSet(requests') :
                 r.kind = "match" /\ CopiesIn(r, requests') > CopiesIn(r, requests)
         claimed == /\ returned # {}
                    /\ reply'.kind = "match"
                    /\ reply'.session.status = "playing"
     IN IF claimed
        THEN LET s == reply'.sid
             IN /\ pushed'[s].session_update = pushed[s].session_update + 1
                /\ pushed'[s].session_end = pushed[s].session_end
                /\ \A x \in SessionIds \ {s} : pushed'[x] = pushed[x]
                /\ sessions[s].player2_id = reply'.player
                /\ audit[s].claims >= 1
                /\ reply'.session.player2_id = reply'.player
        ELSE matchStep => \A x \in SessionIds : pushed'[x] = pushed[x]]_vars

\* C29 witness: a request that created a waiting row of its own, found another
\* waiting row in the double-check, claimed it and cancelled its own was
\* answered with the claimed session after one session_update was posted for it,
\* while the waiting row of a request that only created one has no post
C29_Witness ==
  /\ reply.kind = "match"
  /\ reply.code = 200
  /\ reply.session.status = "playing"
  /\ pushed[reply.sid].session_update = 1
  /\ \E s \in SessionIds : /\ sessions[s].player1_id = reply.player
                            /\ sessions[s].status = "cancelled"
                            /\ pushed[s].session_update = 0
  /\ \E s \in SessionIds : /\ sessions[s].status = "waiting"
                            /\ pushed[s].session_update = 0

C22_LeavesChoosingWaiting ==
  [](state \in {"choosing", "waiting"} => <>(state \notin {"choosing", "waiting"}))

\* C23: after every step a client in result stores a session with a
\* round_result (so a step that enters result leaves such a session stored),
\* and a step whose render is in result without a round_result ends in
\* matching with the session cleared.
C23_ResultHasData ==
  [][/\ state' = "result" => session'.round_result # "null"
     /\ report' = "recovered" => (state' = "matching" /\ session' = NoSession)]_vars

C23_Witness ==
  /\ report = "recovered"
  /\ state = "matching"
  /\ session = NoSession
  /\ joinMatch = "pending"

\* C24: a client in result with an outcome other than a draw leaves result
\* only by the play-again action.
C24_LeavesByPlayAgain ==
  [][(state = "result" /\ session.round_result # "draw" /\ state' # "result")
       => handlePlayAgain]_vars

\* C25: the polling of a waiting session never gives the session up (the
\* abandon after the last poll) once the store has it playing: a poll sees
\* playing first.
C25_PollSeesPlaying ==
  [][(PollTick /\ pollPhase' = "abandon") => srv[session.id] # "playing"]_vars

\* C26: once the client is in result for a session, a session_update for that
\* session saying 'playing, no result yet' leaves the client in result with
\* the same round_result stored.
C26_TerminalWins ==
  [][(state = "result" /\ report' \in {"push", "dropped"})
       => (state' = "result" /\ session'.id = session.id
           /\ session'.round_result = session.round_result)]_vars

C26_Witness ==
  /\ report = "dropped"
  /\ state = "result"
  /\ session.status = "finished"
  /\ session.round_result # "null"

\* C27: when a choose request or an abandon request issued for a session
\* settles while the client stores no session or another one, the step leaves
\* the client's state, stored session and local choice as they were.
C27_LateCompletionIgnored ==
  [][\A op \in awaited :
       (op.op \in {"choose", "abandon"} /\ op.sid # session.id /\ op \notin awaited')
         => (state' = state /\ session' = session /\ myChoice' = myChoice)]_vars

\* C28: in every state other than nickname and a result that is not a draw,
\* a timer is armed or a request of the component is under way.
C28_SomethingPending ==
  (state # "nickname" /\ ~(state = "result" /\ session.round_result # "draw"))
    => \/ joinMatch # "none"
       \/ pollPhase # "off"
       \/ connectTimeout
       \/ stuckTimer # "off"
       \/ choiceTimer
       \/ leftTimer
       \/ (state = "result" /\ session.round_result = "draw")
       \/ awaited # {}

\* C30: the polls of a waiting session are counted without a reset for as
\* long as the session is stored as waiting, a poll is sent only up to the
\* count MAX_WAITING_POLLS, the timer that fires after that sends the abandon
\* for the session instead, and when that abandon settles the session is
\* cleared and the client is in matching with a new match request under way.
C30_BoundedPolls ==
  [][/\ (session.status = "waiting" /\ session' = session) => pollCount' >= pollCount
     /\ pollPhase' = "fetch" => pollCount' <= MAX_WAITING_POLLS
     /\ (PollTick /\ pollCount = MAX_WAITING_POLLS)
          => (/\ pollPhase' = "abandon"
              /\ Op("abandon", session.id) \in awaited'
              /\ session' = session)
     /\ (pollPhase = "abandon" /\ Op("abandon", session.id) \notin awaited')
          => (/\ session' = NoSession
              /\ state' = "matching"
              /\ pollPhase' = "off"
              /\ joinMatch' = "pending")]_vars

C30_Witness ==
  /\ pollPhase = "abandon"
  /\ pollCount = MAX_WAITING_POLLS + 1
  /\ session.status = "waiting"
  /\ Op("abandon", session.id) \in awaited

\* C31: a session_end for the stored session that arrives while the client
\* is in result (as it is after its own choose response brought the finished
\* session) leaves the client in result with the same session and
\* round_result stored.
C31_TerminalPushIdempotent ==
  [][(state = "result" /\ report' \in {"pushEnd", "droppedEnd"})
       => (state' = "result" /\ session' = session)]_vars

C31_Witness ==
  /\ report = "droppedEnd"
  /\ state = "result"
  /\ session.round_result # "null"
  /\ myChoice # "null"
  /\ Op("choose", session.id) \notin awaited

\* the tables and the relay posts are as they were
C32_Untouched ==
  /\ sessions' = sessions
  /\ updatedOrder' = updatedOrder
  /\ rankings' = rankings
  /\ champion' = champion
  /\ pushed' = pushed
  /\ audit' = audit

\* the step that turns session s cancelled is a step of a request of a
\* participant of s
C32_CancelledByParticipant ==
  \A s \in SessionIds :
    (sessions[s].status # "cancelled" /\ sessions'[s].status = "cancelled")
      => \E p \in Players :
           /\ IsParticipant(sessions[s], p)
           /\ \/ StartMatch(p)
              \/ \E r \in InFlight : r.player = p /\ (MatchCancelNew(r) \/ AbandonWrite(r))

\* C32 as stated: a choose or an abandon of a player who is in neither slot
\* of the named session is answered 403, changes no row and posts nothing,
\* and a session turns cancelled only by a request of one of its participants.
C32_StrangerRefused403 ==
  [][/\ \A p \in Players : \A s \in SessionIds :
          (~IsParticipant(sessions[s], p)
            /\ (StartAbandon(p, s) \/ \E c \in VALID_CHOICES : StartChoose(p, s, c)))
          => (reply'.player = p /\ reply'.code = 403 /\ C32_Untouched)
     /\ C32_CancelledByParticipant]_vars

\* C32 amended: the same, with the answer 404 in place of 403 for a choose
\* that names a session which is not playing.
C32_StrangerRefused ==
  [][/\ \A p \in Players : \A s \in SessionIds :
          ~IsParticipant(sessions[s], p) =>
            /\ StartAbandon(p, s)
                 => (reply'.player = p /\ reply'.code = 403 /\ C32_Untouched)
            /\ (\E c \in VALID_CHOICES : StartChoose(p, s, c))
                 => (/\ reply'.player = p
                     /\ reply'.code = IF sessions[s].status = "playing" THEN 403 ELSE 404
                     /\ C32_Untouched)
     /\ C32_CancelledByParticipant]_vars

C32_Witness ==
  /\ reply.kind = "abandon"
  /\ reply.code = 403
  /\ \E s \in SessionIds : /\ sessions[s].status = "playing"
                            /\ ~IsParticipant(sessions[s], reply.player)
  /\ \E s \in SessionIds : sessions[s].status = "cancelled"

\* C33: a step changes the round_choices of a session only when the session
\* is playing at that step.
C33_ChoicesOnlyWhilePlaying ==
  [][\A s \in SessionIds :
       sessions'[s].round_choices # sessions[s].round_choices
         => sessions[s].status = "playing"]_vars

\* the player who won the resolution that request r wrote ("null": a draw,
\* or r has resolved nothing)
C34_WinnerOf(r) ==
  CASE r.snap.round_result.winner = "player1" -> r.snap.player1_id
    [] r.snap.round_result.winner = "player2" -> r.snap.player2_id
    [] OTHER -> NoPlayer

\* C34: a step that changes a ranking entry or the champion summary is a step
\* of a choose request that resolved its round with a winner other than a
\* draw, and it changes no ranking entry but that winner's; a request that
\* resolves a draw goes straight to its broadcast.
C34_RankingOnlyByWinner ==
  [][/\ (rankings' # rankings \/ champion' # champion)
          => \E r \in InFlight :
               /\ r.kind = "choose"
               /\ C34_WinnerOf(r) # NoPlayer
               /\ C34_WinnerOf(r) = r.player
               /\ ChooseRankWrite(r) \/ ChooseChampion(r)
               /\ \A q \in Players \ {r.player} : rankings'[q] = rankings[q]
     /\ \A r \in InFlight :
          (/\ ChooseResolve(r)
           /\ determineWinner(UpdatedChoices(r)["player1"],
                              UpdatedChoices(r)["player2"]) = "draw")
            => /\ rankings' = rankings
               /\ champion' = champion
               /\ \E r2 \in BagToSet(requests') :
                    /\ r2.pc = "c_end"
                    /\ r2.player = r.player
                    /\ r2.sid = r.sid
                    /\ C34_WinnerOf(r2) = NoPlayer]_vars

C34_Witness ==
  /\ reply.kind = "choose"
  /\ reply.code = 200
  /\ reply.session.status = "finished"
  /\ reply.session.round_result.winner = "draw"
  /\ sessions[reply.sid].round_result.winner = "draw"
  /\ rankings = [p \in Players |-> IF p = "a" THEN 1 ELSE 0]
  /\ champion = [player |-> "a", streak |-> 1]

\* C35: when the choose request for the stored session is answered 400
\* 'Already chose', the client abandons the session and is in matching with
\* the session cleared.
C35_AlreadyChoseAbandons ==
  [][\A op \in {o \in awaited : o.op = "choose"} : \A out \in Outcomes(op.sid) :
       (/\ op.sid = session.id
        /\ state = "waiting"
        /\ out.kind = "400"
        /\ ChooseReply(op, out))
         => (/\ state' = "matching"
             /\ session' = NoSession
             /\ Op("abandon", op.sid) \in awaited')]_vars

\* C36: a player_left naming the opponent that arrives while the client is in
\* result leaves it in result with opponentLeft as it was, and opponentLeft
\* turns true only in a step that handles such a player_left while the client
\* is in choosing or waiting.
C36_OpponentLeftOnlyInRound ==
  [][/\ (state = "result" /\ report' \in {"pushLeft", "droppedLeft"})
          => (state' = "result" /\ opponentLeft' = opponentLeft)
     /\ (~opponentLeft /\ opponentLeft')
          => (/\ report' = "pushLeft"
              /\ state \in {"choosing", "waiting"})]_vars

\* C37: when the waiting session the client holds turns playing and the
\* client enters choosing for it, the relay connection is open or a connect
\* timeout is pending.
C37_ConnectedOrTimed ==
  [][(/\ session.status = "waiting"
      /\ session'.status = "playing"
      /\ session'.id = session.id
      /\ state' = "choosing")
       => (socket' = "open" \/ connectTimeout')]_vars

\* C38: every session has a player in slot 1, and the player in slot 2, if
\* any, is another one.
C38_SlotsDiffer ==
  \A s \in SessionIds :
    /\ sessions[s].player1_id # NoPlayer
    /\ sessions[s].player2_id # sessions[s].player1_id

\* one player has two waiting sessions (two match requests side by side),
\* one of the requests is about to look for a session to join, and another
\* session has been joined
C38_Witness ==
  /\ \E s1, s2 \in SessionIds :
       /\ s1 # s2
       /\ sessions[s1].status = "waiting"
       /\ sessions[s2].status = "waiting"
       /\ sessions[s1].player1_id = sessions[s2].player1_id
       /\ \E r \in InFlight : /\ r.kind = "match"
                               /\ r.player = sessions[s1].player1_id
                               /\ r.pc = "m_recheck"
  /\ \E s \in SessionIds : sessions[s].player2_id # NoPlayer

\* C39: a row with a round_result has a choice of both slots in
\* round_choices, the round_result repeats those choices, its winner is the
\* winner of the dominance table for them, and winner_id is the player of the
\* winning slot, or unset for a draw.
C39_ResultConsistent ==
  \A s \in SessionIds :
    LET row == sessions[s]
        res == row.round_result
    IN res # NullResult =>
         /\ BothChosen(row.round_choices)
         /\ res.player1_choice = ChoiceOf(row.round_choices, "player1")
         /\ res.player2_choice = ChoiceOf(row.round_choices, "player2")
         /\ res.winner = determineWinner(res.player1_choice, res.player2_choice)
         /\ row.winner_id = CASE res.winner = "player1" -> row.player1_id
                              [] res.winner = "player2" -> row.player2_id
                              [] OTHER -> NoPlayer

\* C40: a client in choosing has no local choice, a client in waiting has
\* one, and a client in choosing or waiting stores a session whose status it
\* last saw as playing.
C40_StateShape ==
  /\ state = "choosing" => myChoice = "null"
  /\ state = "waiting" => myChoice # "null"
  /\ state \in {"choosing", "waiting"} => (session # NoSession /\ session.status = "playing")
====
